---- MODULE Spec2Model ----
(***************************************************************************)
(* UAT review tracker (Flask + SQLite): the checklist catalog, the review  *)
(* aggregate with its result rows, the section selection and the re-review *)
(* carry-forward, as implemented by routes.py on the tables of database.py.*)
(*                                                                         *)
(* Every handler is one action: the statements it executes and its commits.*)
(* The handlers two requests can overlap in (move_section, review_new,     *)
(* review_run) are also given commit by commit: see "concurrent requests". *)
(* get_db() opens the connection without PRAGMA foreign_keys = ON, so the  *)
(* ON DELETE CASCADE / SET NULL clauses of the schema are not enforced and *)
(* a DELETE removes the rows it names and nothing else.                    *)
(***************************************************************************)
EXTENDS Integers, Sequences, FiniteSets, TLC

\* ---------------------------------------------------------------- bounds
\* Caps on the AUTOINCREMENT counters (ids are 1..cap and never reused).
MaxSections == 2
MaxItems == 2
MaxReviews == 2
\* The same caps under SpecCatalog.
CatSections == 3
CatItems == 3
\* Cap on the reviews under SpecFrame.
FrameReviews == 1
\* Caps on the items and the reviews under SpecRun.
RunItems == 2
RunReviews == 1
\* Cap on the items under SpecLegacy.
LegacyItems == 3
\* Caps on the sections and the items, and on the rows of a file, under SpecImport.
ImpSections == 3
ImpItems == 3
ImpRows == 2

\* ------------------------------------------------------------- constants
\* SQL NULL / Python None in a text column.
NULL == "NULL"
RESULTS == {"Pass", "Fail", "Partial", "NA"}
REVIEW_STATUSES == {"draft", "in_progress", "completed", "approved", "rejected"}

VARIABLES
    checklist_section,  \* id -> [sort_order, name, is_default]
    checklist,          \* id -> [section_id, sort_order, text]
    review,             \* id -> [status, archived]
    review_section,     \* set of <<review_id, section_id>>
    review_result,      \* <<review_id, checklist_id>> -> [result, attachment]
    sqlite_sequence,    \* AUTOINCREMENT counters, one per table
    requests,           \* client -> the handler it has running, between two commits
    last                \* the request handled last: its action and the ids it named

vars == <<checklist_section, checklist, review, review_section, review_result,
          sqlite_sequence, requests, last>>
catalog == <<checklist_section, checklist>>
reviews == <<review, review_section, review_result>>

\* The tables: the columns the handlers read and write, and their CHECKs.
TypeOK ==
    /\ \A s \in DOMAIN checklist_section :
         /\ s \in 1..sqlite_sequence.checklist_section
         /\ checklist_section[s].sort_order \in Int
         /\ checklist_section[s].name \in STRING
         /\ checklist_section[s].is_default \in {0, 1}
    /\ \A c \in DOMAIN checklist :
         /\ c \in 1..sqlite_sequence.checklist
         /\ checklist[c].section_id \in Int
         /\ checklist[c].sort_order \in Int
         /\ checklist[c].text \in STRING
    /\ \A r \in DOMAIN review :
         /\ r \in 1..sqlite_sequence.review
         /\ review[r].status \in REVIEW_STATUSES
         /\ review[r].archived \in {0, 1}
    /\ \A p \in review_section : p[1] \in Int /\ p[2] \in Int
    /\ \A k \in DOMAIN review_result :
         /\ k[1] \in Int /\ k[2] \in Int
         /\ review_result[k].result \in RESULTS \cup {NULL}
         /\ review_result[k].attachment \in STRING
    /\ \A q \in DOMAIN requests :
         /\ requests[q].op \in {"move_section", "create", "run"}
         /\ requests[q].pc \in {"write", "sections", "results", "finish", "done"}

\* ------------------------------------------------------------ SQL helpers
\* Python's `x or d` on an integer: 0 is falsy.
PyOr(x, d) == IF x = 0 THEN d ELSE x

Max(S) == CHOOSE x \in S : \A y \in S : y <= x

\* COALESCE(MAX(sort_order), -1) over a set of rows of table t.
CoalesceMaxOrder(t, ids) ==
    IF ids = {} THEN -1 ELSE Max({t[i].sort_order : i \in ids})

\* (sort_order, id) order of table t.
OrderBefore(t, a, b) ==
    \/ t[a].sort_order < t[b].sort_order
    \/ t[a].sort_order = t[b].sort_order /\ a < b

\* FirstInOrder with ORDER BY id alone.
FirstById(t, ids) ==
    IF ids = {} THEN 0
    ELSE CHOOSE a \in ids : \A b \in ids : a <= b

\* ORDER BY sort_order, id LIMIT 1 over the rows ids (0 when there is none).
FirstInOrder(t, ids) ==
    IF ids = {} THEN 0
    ELSE CHOOSE a \in ids : \A b \in ids \ {a} : OrderBefore(t, a, b)

\* ORDER BY sort_order DESC, id DESC LIMIT 1 over the rows ids.
LastInOrder(t, ids) ==
    IF ids = {} THEN 0
    ELSE CHOOSE a \in ids : \A b \in ids \ {a} : OrderBefore(t, b, a)

\* INSERT of one row with a fresh AUTOINCREMENT id.
Insert(t, id, row) == [i \in DOMAIN t \cup {id} |-> IF i = id THEN row ELSE t[i]]

\* DELETE FROM t WHERE id IN ids.
Delete(t, ids) == [i \in DOMAIN t \ ids |-> t[i]]

ItemsOf(sid) == {c \in DOMAIN checklist : checklist[c].section_id = sid}

\* ------------------------------------------------------------------ Init
\* init_db on a new database: the tables are empty except for 'Section 1'.
\* The is_default column is not in the INSERT; it starts unset (0: falsy).
Init ==
    /\ checklist_section = (1 :> [sort_order |-> 0, name |-> "Section 1", is_default |-> 0])
    /\ checklist = << >>
    /\ review = << >>
    /\ review_section = {}
    /\ review_result = << >>
    /\ sqlite_sequence = [checklist_section |-> 1, checklist |-> 0, review |-> 0]
    /\ requests = << >>
    /\ last = [op |-> "init"]

\* ------------------------------------------------------ checklist_edit
\* action == "add_section"
AddSection(section_name) ==
    LET name == IF section_name = "" THEN "Section" ELSE section_name
        max_order == CoalesceMaxOrder(checklist_section, DOMAIN checklist_section) + 1
        id == sqlite_sequence.checklist_section + 1
    IN  /\ checklist_section' = Insert(checklist_section, id,
                [sort_order |-> max_order, name |-> name, is_default |-> 0])
        /\ sqlite_sequence' = [sqlite_sequence EXCEPT !.checklist_section = id]
        /\ UNCHANGED requests
        /\ last' = [op |-> "add_section"]
        /\ UNCHANGED <<checklist, reviews>>

\* action == "rename_section"
RenameSection(section_id, section_name) ==
    /\ checklist_section' =
         IF section_id # 0 /\ section_name # "" /\ section_id \in DOMAIN checklist_section
         THEN [checklist_section EXCEPT ![section_id].name = section_name]
         ELSE checklist_section
    /\ UNCHANGED requests
    /\ last' = [op |-> "rename_section"]
    /\ UNCHANGED <<checklist, reviews, sqlite_sequence>>

\* DeleteSection that also deletes the review_section rows of the section.
DeleteSectionAndSelections(section_id) ==
    LET first == FirstInOrder(checklist_section, DOMAIN checklist_section \ {section_id})
    IN  /\ IF section_id # 0
           THEN /\ checklist' =
                     IF first # 0
                     THEN [c \in DOMAIN checklist |->
                             IF checklist[c].section_id = section_id
                             THEN [checklist[c] EXCEPT !.section_id = first]
                             ELSE checklist[c]]
                     ELSE checklist
                /\ checklist_section' = Delete(checklist_section, {section_id})
                /\ review_section' = {p \in review_section : p[2] # section_id}
           ELSE UNCHANGED <<catalog, review_section>>
        /\ UNCHANGED requests
        /\ last' = [op |-> "delete_section", section_id |-> section_id]
        /\ UNCHANGED <<review, review_result, sqlite_sequence>>

\* action == "delete_section"
DeleteSection(section_id) ==
    LET first == FirstInOrder(checklist_section, DOMAIN checklist_section \ {section_id})
    IN  /\ IF section_id # 0
           THEN /\ checklist' =
                     IF first # 0
                     THEN [c \in DOMAIN checklist |->
                             IF checklist[c].section_id = section_id
                             THEN [checklist[c] EXCEPT !.section_id = first]
                             ELSE checklist[c]]
                     ELSE checklist
                /\ checklist_section' = Delete(checklist_section, {section_id})
           ELSE UNCHANGED catalog
        /\ UNCHANGED requests
        /\ last' = [op |-> "delete_section", section_id |-> section_id]
        /\ UNCHANGED <<reviews, sqlite_sequence>>

\* MoveSection with the first UPDATE only: the neighbour keeps its sort_order.
MoveSectionOneUpdate(section_id, direction) ==
    LET exists == section_id # 0 /\ direction \in {"up", "down"}
                  /\ section_id \in DOMAIN checklist_section
        current_order == checklist_section[section_id].sort_order
        neighbour ==
            IF direction = "up"
            THEN LastInOrder(checklist_section,
                    {s \in DOMAIN checklist_section :
                        checklist_section[s].sort_order < current_order})
            ELSE FirstInOrder(checklist_section,
                    {s \in DOMAIN checklist_section :
                        checklist_section[s].sort_order > current_order})
    IN  /\ checklist_section' =
             IF exists /\ neighbour # 0
             THEN [checklist_section EXCEPT
                     ![section_id].sort_order = checklist_section[neighbour].sort_order]
             ELSE checklist_section
        /\ UNCHANGED requests
        /\ last' = [op |-> "move_section", section_id |-> section_id, direction |-> direction,
                    neighbour |-> IF exists THEN neighbour ELSE 0]
        /\ UNCHANGED <<checklist, reviews, sqlite_sequence>>

\* action == "move_section"
MoveSection(section_id, direction) ==
    LET exists == section_id # 0 /\ direction \in {"up", "down"}
                  /\ section_id \in DOMAIN checklist_section
        current_order == checklist_section[section_id].sort_order
        neighbour ==
            IF direction = "up"
            THEN LastInOrder(checklist_section,
                    {s \in DOMAIN checklist_section :
                        checklist_section[s].sort_order < current_order})
            ELSE FirstInOrder(checklist_section,
                    {s \in DOMAIN checklist_section :
                        checklist_section[s].sort_order > current_order})
    IN  /\ checklist_section' =
             IF exists /\ neighbour # 0
             THEN [checklist_section EXCEPT
                     ![section_id].sort_order = checklist_section[neighbour].sort_order,
                     ![neighbour].sort_order = current_order]
             ELSE checklist_section
        /\ UNCHANGED requests
        /\ last' = [op |-> "move_section", section_id |-> section_id, direction |-> direction,
                    neighbour |-> IF exists THEN neighbour ELSE 0]
        /\ UNCHANGED <<checklist, reviews, sqlite_sequence>>

\* MoveItem with the neighbour looked up among the items of all sections.
MoveItemAcrossSections(item_id, direction) ==
    LET exists == item_id # 0 /\ direction \in {"up", "down"} /\ item_id \in DOMAIN checklist
        sec_id == checklist[item_id].section_id
        current_order == checklist[item_id].sort_order
        neighbour ==
            IF direction = "up"
            THEN LastInOrder(checklist,
                    {c \in DOMAIN checklist :
                        \/ checklist[c].sort_order < current_order
                        \/ checklist[c].sort_order = current_order /\ c < item_id})
            ELSE FirstInOrder(checklist,
                    {c \in DOMAIN checklist :
                        \/ checklist[c].sort_order > current_order
                        \/ checklist[c].sort_order = current_order /\ c > item_id})
    IN  /\ checklist' =
             IF exists /\ neighbour # 0
             THEN [checklist EXCEPT
                     ![item_id].sort_order = checklist[neighbour].sort_order,
                     ![neighbour].sort_order = current_order]
             ELSE checklist
        /\ UNCHANGED requests
        /\ last' = [op |-> "move_item", item_id |-> item_id, direction |-> direction,
                    neighbour |-> IF exists THEN neighbour ELSE 0]
        /\ UNCHANGED <<checklist_section, reviews, sqlite_sequence>>

\* action == "move_item"
MoveItem(item_id, direction) ==
    LET exists == item_id # 0 /\ direction \in {"up", "down"} /\ item_id \in DOMAIN checklist
        sec_id == checklist[item_id].section_id
        current_order == checklist[item_id].sort_order
        neighbour ==
            IF direction = "up"
            THEN LastInOrder(checklist,
                    {c \in ItemsOf(sec_id) :
                        \/ checklist[c].sort_order < current_order
                        \/ checklist[c].sort_order = current_order /\ c < item_id})
            ELSE FirstInOrder(checklist,
                    {c \in ItemsOf(sec_id) :
                        \/ checklist[c].sort_order > current_order
                        \/ checklist[c].sort_order = current_order /\ c > item_id})
    IN  /\ checklist' =
             IF exists /\ neighbour # 0
             THEN [checklist EXCEPT
                     ![item_id].sort_order = checklist[neighbour].sort_order,
                     ![neighbour].sort_order = current_order]
             ELSE checklist
        /\ UNCHANGED requests
        /\ last' = [op |-> "move_item", item_id |-> item_id, direction |-> direction,
                    neighbour |-> IF exists THEN neighbour ELSE 0]
        /\ UNCHANGED <<checklist_section, reviews, sqlite_sequence>>

\* action == "remove_items": DELETE FROM checklist WHERE id IN (delete_ids).
\* No statement touches review_result, and the cascade is not enforced.
RemoveItems(delete_ids) ==
    /\ checklist' = IF delete_ids # {} THEN Delete(checklist, delete_ids) ELSE checklist
    /\ UNCHANGED requests
    /\ last' = [op |-> "remove_items", ids |-> delete_ids]
    /\ UNCHANGED <<checklist_section, reviews, sqlite_sequence>>

\* action == "reorder": the i-th posted id (0-based) gets sort_order i; an id
\* posted twice keeps the later position, a blank (0) entry keeps its index.
Reorder(ordered_ids) ==
    LET Pos(c) == Max({i \in 1..Len(ordered_ids) : ordered_ids[i] = c}) - 1
    IN  /\ checklist' =
             [c \in DOMAIN checklist |->
                IF \E i \in 1..Len(ordered_ids) : ordered_ids[i] = c
                THEN [checklist[c] EXCEPT !.sort_order = Pos(c)]
                ELSE checklist[c]]
        /\ UNCHANGED requests
        /\ last' = [op |-> "reorder"]
        /\ UNCHANGED <<checklist_section, reviews, sqlite_sequence>>

\* AddItem that also gives every review a blank result row for the new item.
AddItemToReviews(section_id, new_text) ==
    LET max_order == CoalesceMaxOrder(checklist, ItemsOf(section_id)) + 1
        id == sqlite_sequence.checklist + 1
        new == {<<r, id>> : r \in DOMAIN review}
    IN  /\ new_text # "" /\ section_id # 0
        /\ checklist' = Insert(checklist, id,
                [section_id |-> section_id, sort_order |-> max_order, text |-> new_text])
        /\ sqlite_sequence' = [sqlite_sequence EXCEPT !.checklist = id]
        /\ review_result' = [k \in DOMAIN review_result \cup new |->
                IF k \in DOMAIN review_result THEN review_result[k]
                ELSE [result |-> NULL, attachment |-> NULL]]
        /\ UNCHANGED requests
        /\ last' = [op |-> "add"]
        /\ UNCHANGED <<checklist_section, review, review_section>>

\* action == "add": section_id is not looked up in checklist_section.
AddItem(section_id, new_text) ==
    LET max_order == CoalesceMaxOrder(checklist, ItemsOf(section_id)) + 1
        id == sqlite_sequence.checklist + 1
    IN  /\ IF new_text # "" /\ section_id # 0
           THEN /\ checklist' = Insert(checklist, id,
                        [section_id |-> section_id, sort_order |-> max_order, text |-> new_text])
                /\ sqlite_sequence' = [sqlite_sequence EXCEPT !.checklist = id]
           ELSE UNCHANGED <<checklist, sqlite_sequence>>
        /\ UNCHANGED requests
        /\ last' = [op |-> "add"]
        /\ UNCHANGED <<checklist_section, reviews>>

\* str.strip() on the texts the model posts.
Strip(s) == IF s = " " THEN "" ELSE s

\* [line.strip() for line in text.splitlines() if line.strip()]
NonBlank(raw) == SelectSeq([i \in 1..Len(raw) |-> Strip(raw[i])], LAMBDA l : l # "")

\* action == "paste"
PasteItems(section_id, checklist_text) ==
    LET lines == NonBlank(checklist_text)
        max_order == PyOr(CoalesceMaxOrder(checklist, ItemsOf(section_id)), -1)
        base == sqlite_sequence.checklist
        new == base + 1 .. base + Len(lines)
    IN  /\ IF section_id # 0 /\ lines # << >>
           THEN /\ checklist' =
                     [c \in DOMAIN checklist \cup new |->
                        IF c \in new
                        THEN [section_id |-> section_id,
                              sort_order |-> max_order + 1 + (c - base - 1),
                              text |-> lines[c - base]]
                        ELSE checklist[c]]
                /\ sqlite_sequence' = [sqlite_sequence EXCEPT !.checklist = base + Len(lines)]
           ELSE UNCHANGED <<checklist, sqlite_sequence>>
        /\ UNCHANGED requests
        /\ last' = [op |-> "paste"]
        /\ UNCHANGED <<checklist_section, reviews>>

\* action == "set_section_default"
SetSectionDefault(section_id, is_default) ==
    /\ checklist_section' =
         IF section_id \in DOMAIN checklist_section
         THEN [checklist_section EXCEPT ![section_id].is_default = IF is_default THEN 1 ELSE 0]
         ELSE checklist_section
    /\ UNCHANGED requests
    /\ last' = [op |-> "set_section_default"]
    /\ UNCHANGED <<checklist, reviews, sqlite_sequence>>

\* {row["name"]: row["id"] for row in SELECT id, name FROM checklist_section}:
\* the scan is in rowid order, so of two sections with one name the later wins.
SectionsByName(cs) ==
    [n \in {cs[i].name : i \in DOMAIN cs} |-> Max({i \in DOMAIN cs : cs[i].name = n})]

\* Mutant of ImportRow: the duplicate test looks at the items of every section.
ImportRowAnySection(st, row) ==
    LET sec_name == Strip(row.section_name)
        criteria_text == Strip(row.criteria)
        isNew == sec_name \notin DOMAIN st.sections_by_name
        max_section_order == IF isNew THEN st.max_section_order + 1 ELSE st.max_section_order
        sec_id == IF isNew THEN st.seq.checklist_section + 1 ELSE st.sections_by_name[sec_name]
        cs == IF isNew
              THEN Insert(st.cs, sec_id,
                     [sort_order |-> max_section_order, name |-> sec_name, is_default |-> 0])
              ELSE st.cs
        by_name == [n \in DOMAIN st.sections_by_name \cup {sec_name} |->
                      IF n = sec_name THEN sec_id ELSE st.sections_by_name[n]]
        in_sec == {c \in DOMAIN st.cl : st.cl[c].section_id = sec_id}
        exists == \E c \in DOMAIN st.cl : st.cl[c].text = criteria_text
        max_order == PyOr(CoalesceMaxOrder(st.cl, in_sec), -1)
        item_id == st.seq.checklist + 1
        st1 == [st EXCEPT !.cs = cs, !.sections_by_name = by_name,
                          !.max_section_order = max_section_order,
                          !.seq.checklist_section = IF isNew THEN sec_id ELSE @,
                          !.new_sections = IF isNew THEN @ + 1 ELSE @]
    IN  IF sec_name = "" \/ criteria_text = "" THEN st
        ELSE IF exists THEN [st1 EXCEPT !.skipped = @ + 1]
        ELSE [st1 EXCEPT
                !.cl = Insert(st.cl, item_id,
                         [section_id |-> sec_id, sort_order |-> max_order + 1,
                          text |-> criteria_text]),
                !.seq.checklist = item_id,
                !.added = @ + 1]

\* The loop body of import_csv for one row, on the loop's running state st.
ImportRow(st, row) ==
    LET sec_name == Strip(row.section_name)
        criteria_text == Strip(row.criteria)
        isNew == sec_name \notin DOMAIN st.sections_by_name
        max_section_order == IF isNew THEN st.max_section_order + 1 ELSE st.max_section_order
        sec_id == IF isNew THEN st.seq.checklist_section + 1 ELSE st.sections_by_name[sec_name]
        cs == IF isNew
              THEN Insert(st.cs, sec_id,
                     [sort_order |-> max_section_order, name |-> sec_name, is_default |-> 0])
              ELSE st.cs
        by_name == [n \in DOMAIN st.sections_by_name \cup {sec_name} |->
                      IF n = sec_name THEN sec_id ELSE st.sections_by_name[n]]
        in_sec == {c \in DOMAIN st.cl : st.cl[c].section_id = sec_id}
        exists == \E c \in in_sec : st.cl[c].text = criteria_text
        max_order == PyOr(CoalesceMaxOrder(st.cl, in_sec), -1)
        item_id == st.seq.checklist + 1
        st1 == [st EXCEPT !.cs = cs, !.sections_by_name = by_name,
                          !.max_section_order = max_section_order,
                          !.seq.checklist_section = IF isNew THEN sec_id ELSE @,
                          !.new_sections = IF isNew THEN @ + 1 ELSE @]
    IN  IF sec_name = "" \/ criteria_text = "" THEN st
        ELSE IF exists THEN [st1 EXCEPT !.skipped = @ + 1]
        ELSE [st1 EXCEPT
                !.cl = Insert(st.cl, item_id,
                         [section_id |-> sec_id, sort_order |-> max_order + 1,
                          text |-> criteria_text]),
                !.seq.checklist = item_id,
                !.added = @ + 1]

RECURSIVE ImportRows(_, _)
ImportRows(st, rows) ==
    IF rows = << >> THEN st ELSE ImportRows(ImportRow(st, Head(rows)), Tail(rows))

\* The state of the import loop after all rows (lines 177-223).
ImportCsvResult(rows) ==
    ImportRows([cs |-> checklist_section, cl |-> checklist, seq |-> sqlite_sequence,
                sections_by_name |-> SectionsByName(checklist_section),
                max_section_order |->
                    PyOr(CoalesceMaxOrder(checklist_section, DOMAIN checklist_section), -1),
                added |-> 0, skipped |-> 0, new_sections |-> 0],
               rows)

\* action == "import_csv", on a file whose header has both columns.
ImportCsv(rows) ==
    LET st == ImportCsvResult(rows)
    IN  /\ checklist_section' = st.cs
        /\ checklist' = st.cl
        /\ sqlite_sequence' = st.seq
        /\ UNCHANGED requests
        /\ last' = [op |-> "import_csv", added |-> st.added, skipped |-> st.skipped,
                    new_sections |-> st.new_sections]
        /\ UNCHANGED reviews

\* --------------------------------------------------- section selection
\* _get_review_section_ids: the set of section ids of the review's rows. Python's
\* None ("all sections") is returned exactly when there is no row: it is the
\* empty set here, which the function never returns otherwise.
GetReviewSectionIds(review_id) ==
    {p[2] : p \in {q \in review_section : q[1] = review_id}}

\* The rows review_run / review_detail / pdf_export keep of the joined item list.
VisibleItems(review_id) ==
    LET section_ids == GetReviewSectionIds(review_id)
    IN  IF section_ids = {} THEN DOMAIN checklist
        ELSE {c \in DOMAIN checklist : checklist[c].section_id \in section_ids}

\* The checklist ids with a review_result row of the review.
ResultIds(rr, review_id) == {k[2] : k \in {p \in DOMAIN rr : p[1] = review_id}}

\* ------------------------------------------------ the three item views
\* The ORDER BY key of an item in
\*   checklist c LEFT JOIN checklist_section s ON c.section_id = s.id
\*   ORDER BY s.sort_order, s.id, c.sort_order, c.id
\* An item whose section row is missing has NULL section columns, and NULL
\* sorts before every value: the key starts with 0 for it, with 1 otherwise.
JoinKey(c) ==
    LET sid == checklist[c].section_id
    IN  IF sid \in DOMAIN checklist_section
        THEN <<1, checklist_section[sid].sort_order, sid, checklist[c].sort_order, c>>
        ELSE <<0, 0, 0, checklist[c].sort_order, c>>

KeyBefore(k1, k2) ==
    \E i \in 1..Len(k1) : k1[i] < k2[i] /\ \A j \in 1..(i - 1) : k1[j] = k2[j]

RECURSIVE InJoinOrder(_)
InJoinOrder(ids) ==
    IF ids = {} THEN << >>
    ELSE LET first == CHOOSE a \in ids :
                        \A b \in ids \ {a} : KeyBefore(JoinKey(a), JoinKey(b))
         IN  <<first>> \o InJoinOrder(ids \ {first})

\* The rows of the query, as the sequence of their checklist ids.
JoinedItems == InJoinOrder(DOMAIN checklist)

\* row["section_name"] or "General"
SecName(c) ==
    LET sid == checklist[c].section_id
    IN  IF sid \in DOMAIN checklist_section /\ checklist_section[sid].name # ""
        THEN checklist_section[sid].name
        ELSE "General"

\* result_map.get(id) and attachment_map.get(id, "") over the review's rows.
ResultMapGet(review_id, c) ==
    IF <<review_id, c>> \in DOMAIN review_result
    THEN review_result[<<review_id, c>>].result ELSE NULL

AttachmentMapGet(review_id, c) ==
    IF <<review_id, c>> \in DOMAIN review_result
       /\ review_result[<<review_id, c>>].attachment # NULL
    THEN Strip(review_result[<<review_id, c>>].attachment) ELSE ""

\* The grouping loop: a row opens a new group when there is none yet or the
\* current group's name differs from the row's section name.
RECURSIVE GroupBySection(_, _)
GroupBySection(rows, sections_criteria) ==
    IF rows = << >> THEN sections_criteria
    ELSE LET row == Head(rows)
             n == Len(sections_criteria)
         IN  IF n = 0 \/ sections_criteria[n].name # row.sec_name
             THEN GroupBySection(Tail(rows),
                    Append(sections_criteria, [name |-> row.sec_name, items |-> <<row.item>>]))
             ELSE GroupBySection(Tail(rows),
                    [sections_criteria EXCEPT ![n].items = Append(@, row.item)])

\* ReviewRunView with the section filter applied to legacy reviews too.
ReviewRunViewAlwaysFiltered(review_id) ==
    LET section_ids == GetReviewSectionIds(review_id)
        items == SelectSeq(JoinedItems, LAMBDA c : checklist[c].section_id \in section_ids)
    IN  GroupBySection(
          [i \in 1..Len(items) |->
             [sec_name |-> SecName(items[i]),
              item |-> [id |-> items[i], text |-> checklist[items[i]].text,
                        result |-> ResultMapGet(review_id, items[i]),
                        attachment |-> AttachmentMapGet(review_id, items[i])]]],
          << >>)

\* GET /review/<id>/run: sections_criteria (lines 620-653).
ReviewRunView(review_id) ==
    LET section_ids == GetReviewSectionIds(review_id)
        items == IF section_ids # {}
                 THEN SelectSeq(JoinedItems, LAMBDA c : checklist[c].section_id \in section_ids)
                 ELSE JoinedItems
    IN  GroupBySection(
          [i \in 1..Len(items) |->
             [sec_name |-> SecName(items[i]),
              item |-> [id |-> items[i], text |-> checklist[items[i]].text,
                        result |-> ResultMapGet(review_id, items[i]),
                        attachment |-> AttachmentMapGet(review_id, items[i])]]],
          << >>)

\* GET /review/<id>: sections_criteria (lines 681-712).
ReviewDetailView(review_id) ==
    LET section_ids == GetReviewSectionIds(review_id)
        items == IF section_ids # {}
                 THEN SelectSeq(JoinedItems, LAMBDA c : checklist[c].section_id \in section_ids)
                 ELSE JoinedItems
    IN  GroupBySection(
          [i \in 1..Len(items) |->
             [sec_name |-> SecName(items[i]),
              item |-> [id |-> items[i], text |-> checklist[items[i]].text,
                        result |-> ResultMapGet(review_id, items[i]),
                        attachment |-> AttachmentMapGet(review_id, items[i])]]],
          << >>)

\* PdfExportView over the unfiltered query.
PdfExportViewUnfiltered(review_id) ==
    LET items == JoinedItems
    IN  GroupBySection(
          [i \in 1..Len(items) |->
             [sec_name |-> SecName(items[i]),
              item |-> [text |-> checklist[items[i]].text,
                        result |-> ResultMapGet(review_id, items[i]),
                        attachment |-> AttachmentMapGet(review_id, items[i])]]],
          << >>)

\* GET /review/<id>/pdf: the sections_criteria handed to build_pdf (lines
\* 778-808); its items carry no id.
PdfExportView(review_id) ==
    LET section_ids == GetReviewSectionIds(review_id)
        items == IF section_ids # {}
                 THEN SelectSeq(JoinedItems, LAMBDA c : checklist[c].section_id \in section_ids)
                 ELSE JoinedItems
    IN  GroupBySection(
          [i \in 1..Len(items) |->
             [sec_name |-> SecName(items[i]),
              item |-> [text |-> checklist[items[i]].text,
                        result |-> ResultMapGet(review_id, items[i]),
                        attachment |-> AttachmentMapGet(review_id, items[i])]]],
          << >>)

\* ------------------------------------------------------------ the index
\* IndexRow with total counted over the items of the catalog the review shows.
IndexRowOverCatalog(review_id) ==
    [id |-> review_id,
     status |-> review[review_id].status,
     filled |-> Cardinality({k \in DOMAIN review_result :
                    k[1] = review_id /\ review_result[k].result # NULL}),
     total |-> Cardinality(VisibleItems(review_id))]

\* One row of base_sql (lines 67-74): the two COUNT(*) subqueries.
IndexRow(review_id) ==
    [id |-> review_id,
     status |-> review[review_id].status,
     filled |-> Cardinality({k \in DOMAIN review_result :
                    k[1] = review_id /\ review_result[k].result # NULL}),
     total |-> Cardinality({k \in DOMAIN review_result : k[1] = review_id})]

\* The dict _build_reviews_list makes of one row. progress is the text
\* f"{filled}/{total} ({pct}%)", kept as its three numbers, or the dash.
BuildReview(row) ==
    LET total == PyOr(row.total, 0)
        filled == PyOr(row.filled, 0)
        pct == (100 * filled) \div total
    IN  [id |-> row.id,
         status |-> IF row.status = "" THEN "in_progress" ELSE row.status,
         progress |-> IF total = 0 THEN <<"-">> ELSE <<filled, total, pct>>]

\* GET /: reviews_active and reviews_archived. Both lists are in created_at
\* order, which the model does not keep: they are the sets of their entries.
Index ==
    [reviews_active |->
        {BuildReview(IndexRow(r)) : r \in {x \in DOMAIN review : review[x].archived = 0}},
     reviews_archived |->
        {BuildReview(IndexRow(r)) : r \in {x \in DOMAIN review : review[x].archived = 1}}]

\* review_new, action == "next": the set selected_ids of lines 463-469. None,
\* which _get_review_section_ids returns for a review without rows, is {}.
SelectedIds(from_id) ==
    LET from_ids == IF from_id # 0 THEN GetReviewSectionIds(from_id) ELSE {}
        defaults == {s \in DOMAIN checklist_section : checklist_section[s].is_default # 0}
    IN  IF from_ids # {} THEN from_ids
        ELSE IF defaults # {} THEN defaults
        ELSE DOMAIN checklist_section

\* sections_for_step2: the "selected" flag of every section the form lists.
SectionsForStep2(from_id) ==
    [s \in DOMAIN checklist_section |-> s \in SelectedIds(from_id)]

\* ----------------------------------------------------------- review_new
\* Python's `s or None` on a text value.
OrNone(s) == IF s = "" THEN NULL ELSE s

\* InsertBlankResults without the section filter of its SELECT.
InsertBlankResultsAllItems(rr, review_id, section_ids) ==
    LET new == {<<review_id, c>> : c \in DOMAIN checklist} \ DOMAIN rr
    IN  [k \in DOMAIN rr \cup new |->
            IF k \in new THEN [result |-> NULL, attachment |-> NULL] ELSE rr[k]]

\* Lines 538-549: one blank result row per item of the chosen sections.
\* INSERT OR IGNORE leaves an existing (review_id, checklist_id) row alone.
InsertBlankResults(rr, review_id, section_ids) ==
    LET items == {c \in DOMAIN checklist : checklist[c].section_id \in section_ids}
        new == {<<review_id, c>> : c \in items} \ DOMAIN rr
    IN  [k \in DOMAIN rr \cup new |->
            IF k \in new THEN [result |-> NULL, attachment |-> NULL] ELSE rr[k]]

\* CarryForward with an UPDATE that sets the result only.
CarryForwardResultOnly(rr, from_id, review_id) ==
    [k \in DOMAIN rr |->
        IF k[1] = review_id /\ <<from_id, k[2]>> \in DOMAIN rr
        THEN [rr[k] EXCEPT !.result = rr[<<from_id, k[2]>>].result]
        ELSE rr[k]]

\* CarryForward that moves the rows: the source's rows are left blank.
CarryForwardMove(rr, from_id, review_id) ==
    [k \in DOMAIN rr |->
        IF k[1] = review_id /\ <<from_id, k[2]>> \in DOMAIN rr
        THEN [result |-> rr[<<from_id, k[2]>>].result,
              attachment |-> OrNone(rr[<<from_id, k[2]>>].attachment)]
        ELSE IF k[1] = from_id /\ <<review_id, k[2]>> \in DOMAIN rr
        THEN [result |-> NULL, attachment |-> NULL]
        ELSE rr[k]]

\* Lines 552-561: UPDATE the new review's row from every row of from_id.
CarryForward(rr, from_id, review_id) ==
    [k \in DOMAIN rr |->
        IF k[1] = review_id /\ <<from_id, k[2]>> \in DOMAIN rr
        THEN [result |-> rr[<<from_id, k[2]>>].result,
              attachment |-> OrNone(rr[<<from_id, k[2]>>].attachment)]
        ELSE rr[k]]

\* ReviewNewCreate without the check of the date field.
ReviewNewCreateDateOptional(from_id, app_name, app_id, date, section_ids) ==
    LET review_id == sqlite_sequence.review + 1
        blank == InsertBlankResults(review_result, review_id, section_ids)
        ok == Strip(app_name) # "" /\ Strip(app_id) # "" /\ section_ids # {}
    IN  /\ IF ok
           THEN /\ review' = Insert(review, review_id,
                                [status |-> "in_progress", archived |-> 0])
                /\ sqlite_sequence' = [sqlite_sequence EXCEPT !.review = review_id]
                /\ review_section' = review_section \cup {<<review_id, s>> : s \in section_ids}
                /\ review_result' =
                     IF from_id # 0 THEN CarryForward(blank, from_id, review_id) ELSE blank
           ELSE UNCHANGED <<reviews, sqlite_sequence>>
        /\ UNCHANGED requests
        /\ last' = [op |-> "create", ok |-> ok, from_id |-> from_id,
                    review_id |-> IF ok THEN review_id ELSE 0, section_ids |-> section_ids]
        /\ UNCHANGED catalog

\* POST action == "create"; from_id = 0 when the query string has none.
\* section_ids is the posted list, taken as the set of its values.
ReviewNewCreate(from_id, app_name, app_id, date, section_ids) ==
    LET review_id == sqlite_sequence.review + 1
        blank == InsertBlankResults(review_result, review_id, section_ids)
        ok == Strip(app_name) # "" /\ Strip(app_id) # "" /\ Strip(date) # ""
              /\ section_ids # {}
    IN  /\ IF ok
           THEN /\ review' = Insert(review, review_id,
                                [status |-> "in_progress", archived |-> 0])
                /\ sqlite_sequence' = [sqlite_sequence EXCEPT !.review = review_id]
                /\ review_section' = review_section \cup {<<review_id, s>> : s \in section_ids}
                /\ review_result' =
                     IF from_id # 0 THEN CarryForward(blank, from_id, review_id) ELSE blank
           ELSE UNCHANGED <<reviews, sqlite_sequence>>
        /\ UNCHANGED requests
        /\ last' = [op |-> "create", ok |-> ok, from_id |-> from_id,
                    review_id |-> IF ok THEN review_id ELSE 0, section_ids |-> section_ids]
        /\ UNCHANGED catalog

\* ----------------------------------------------------------- review_run
\* The two upsert loops of the POST (lines 586-606) on one checklist id.
\* form.result / form.attachment: the posted result_<cid> / attachment_<cid> fields.
UpsertRow(rr, review_id, cid, form) ==
    LET k == <<review_id, cid>>
        hasResult == cid \in DOMAIN form.result /\ form.result[cid] \in RESULTS
        hasAttachment == cid \in DOMAIN form.attachment
        attachment_val == IF hasAttachment THEN OrNone(Strip(form.attachment[cid])) ELSE NULL
    IN  IF hasResult
        THEN [result |-> form.result[cid], attachment |-> attachment_val]
        ELSE [result |-> IF k \in DOMAIN rr THEN rr[k].result ELSE NULL,
              attachment |-> attachment_val]

SaveResults(rr, review_id, form) ==
    LET touched == {c \in DOMAIN form.result : form.result[c] \in RESULTS}
                   \cup DOMAIN form.attachment
        keys == {<<review_id, c>> : c \in touched}
    IN  [k \in DOMAIN rr \cup keys |->
            IF k \in keys THEN UpsertRow(rr, review_id, k[2], form) ELSE rr[k]]

\* ReviewRunPost with a completeness check: finish takes effect only when no
\* result row of the review is left null.
ReviewRunPostWhenComplete(review_id, form, action) ==
    LET saved == SaveResults(review_result, review_id, form)
        complete == \A k \in DOMAIN saved : k[1] = review_id => saved[k].result # NULL
    IN  /\ IF review_id \in DOMAIN review
           THEN /\ review_result' = saved
                /\ review' = IF action = "finish" /\ complete
                             THEN [review EXCEPT ![review_id].status = "completed"]
                             ELSE review
           ELSE UNCHANGED <<review, review_result>>
        /\ UNCHANGED requests
        /\ last' = [op |-> "run", review_id |-> review_id, action |-> action,
                    was |-> IF review_id \in DOMAIN review THEN review[review_id].status ELSE NULL]
        /\ UNCHANGED <<catalog, review_section, sqlite_sequence>>

\* POST /review/<id>/run with action "save" or "finish"; 404 on a missing review.
ReviewRunPost(review_id, form, action) ==
    /\ IF review_id \in DOMAIN review
       THEN /\ review_result' = SaveResults(review_result, review_id, form)
            /\ review' = IF action = "finish"
                         THEN [review EXCEPT ![review_id].status = "completed"]
                         ELSE review
       ELSE UNCHANGED <<review, review_result>>
    /\ UNCHANGED requests
    /\ last' = [op |-> "run", review_id |-> review_id, action |-> action,
                was |-> IF review_id \in DOMAIN review THEN review[review_id].status ELSE NULL]
    /\ UNCHANGED <<catalog, review_section, sqlite_sequence>>

\* ------------------------------------------------- status and archival
\* UPDATE review SET <col> = <val> WHERE id IN ids (missing ids match nothing).
UpdateReviews(ids, col, val) ==
    [r \in DOMAIN review |->
        IF r \in ids
        THEN IF col = "status" THEN [review[r] EXCEPT !.status = val]
                               ELSE [review[r] EXCEPT !.archived = val]
        ELSE review[r]]

\* Approve as a toggle: approving an approved review puts it back to completed.
ApproveToggle(review_id) ==
    /\ review' = IF review_id \in DOMAIN review /\ review[review_id].status = "approved"
                 THEN UpdateReviews({review_id}, "status", "completed")
                 ELSE UpdateReviews({review_id}, "status", "approved")
    /\ UNCHANGED requests
    /\ last' = [op |-> "approve", review_id |-> review_id,
                was |-> IF review_id \in DOMAIN review THEN review[review_id].status ELSE NULL,
                again |-> last.op = "approve" /\ last.review_id = review_id]
    /\ UNCHANGED <<catalog, review_section, review_result, sqlite_sequence>>

\* POST /review/<id>/approve: no lookup of the review, no condition on its state.
Approve(review_id) ==
    /\ review' = UpdateReviews({review_id}, "status", "approved")
    /\ UNCHANGED requests
    /\ last' = [op |-> "approve", review_id |-> review_id,
                was |-> IF review_id \in DOMAIN review THEN review[review_id].status ELSE NULL,
                again |-> last.op = "approve" /\ last.review_id = review_id]
    /\ UNCHANGED <<catalog, review_section, review_result, sqlite_sequence>>

\* Reject that also moves the review to Archived.
RejectAndArchive(review_id) ==
    /\ review' = [r \in DOMAIN review |->
                    IF r = review_id THEN [status |-> "rejected", archived |-> 1]
                    ELSE review[r]]
    /\ UNCHANGED requests
    /\ last' = [op |-> "reject", review_id |-> review_id,
                was |-> IF review_id \in DOMAIN review THEN review[review_id].status ELSE NULL]
    /\ UNCHANGED <<catalog, review_section, review_result, sqlite_sequence>>

Reject(review_id) ==
    /\ review' = UpdateReviews({review_id}, "status", "rejected")
    /\ UNCHANGED requests
    /\ last' = [op |-> "reject", review_id |-> review_id,
                was |-> IF review_id \in DOMAIN review THEN review[review_id].status ELSE NULL]
    /\ UNCHANGED <<catalog, review_section, review_result, sqlite_sequence>>

Archive(review_id) ==
    /\ review' = UpdateReviews({review_id}, "archived", 1)
    /\ UNCHANGED requests
    /\ last' = [op |-> "archive", review_id |-> review_id,
                flag |-> IF review_id \in DOMAIN review THEN review[review_id].archived ELSE -1]
    /\ UNCHANGED <<catalog, review_section, review_result, sqlite_sequence>>

Unarchive(review_id) ==
    /\ review' = UpdateReviews({review_id}, "archived", 0)
    /\ UNCHANGED requests
    /\ last' = [op |-> "unarchive", review_id |-> review_id,
                flag |-> IF review_id \in DOMAIN review THEN review[review_id].archived ELSE -1]
    /\ UNCHANGED <<catalog, review_section, review_result, sqlite_sequence>>

BulkArchive(review_ids) ==
    /\ review' = UpdateReviews(review_ids, "archived", 1)
    /\ UNCHANGED requests
    /\ last' = [op |-> "bulk_archive"]
    /\ UNCHANGED <<catalog, review_section, review_result, sqlite_sequence>>

BulkUnarchive(review_ids) ==
    /\ review' = UpdateReviews(review_ids, "archived", 0)
    /\ UNCHANGED requests
    /\ last' = [op |-> "bulk_unarchive"]
    /\ UNCHANGED <<catalog, review_section, review_result, sqlite_sequence>>

\* BulkDelete without the archived = 1 condition of its WHERE clause.
BulkDeleteAnyListed(review_ids) ==
    LET gone == {r \in DOMAIN review : r \in review_ids}
    IN  /\ review' = Delete(review, gone)
        /\ UNCHANGED requests
        /\ last' = [op |-> "bulk_delete", ids |-> review_ids, deleted |-> Cardinality(gone)]
        /\ UNCHANGED <<catalog, review_section, review_result, sqlite_sequence>>

\* BulkDelete without the id IN (...) condition of its WHERE clause.
BulkDeleteAllArchived(review_ids) ==
    LET gone == {r \in DOMAIN review : review[r].archived = 1}
    IN  /\ review' = Delete(review, gone)
        /\ UNCHANGED requests
        /\ last' = [op |-> "bulk_delete", ids |-> review_ids, deleted |-> Cardinality(gone)]
        /\ UNCHANGED <<catalog, review_section, review_result, sqlite_sequence>>

\* DELETE FROM review WHERE id IN (review_ids) AND archived = 1: the only
\* statement; review_result and review_section are not touched.
BulkDelete(review_ids) ==
    LET gone == {r \in DOMAIN review : r \in review_ids /\ review[r].archived = 1}
    IN  /\ review' = Delete(review, gone)
        /\ UNCHANGED requests
        /\ last' = [op |-> "bulk_delete", ids |-> review_ids, deleted |-> Cardinality(gone)]
        /\ UNCHANGED <<catalog, review_section, review_result, sqlite_sequence>>

\* --------------------------------------------------- concurrent requests
\* The server of app.py (app.run) handles each request on a thread of its own,
\* and get_db gives each request its own connection. The INSERT / UPDATE
\* statements of a connection open a transaction that its next db.commit()
\* ends; SQLite admits one writing connection at a time and shows the others
\* committed rows only, so the statements of a handler up to a commit take
\* effect together, at the commit. A SELECT before them reads the committed
\* tables. Below a handler is one action per commit (and one for the SELECTs
\* that come before its first write); requests[q] holds the handler's local
\* variables between two actions, and pc names the action that comes next.
Clients == {"a", "b"}

Idle(q) == q \notin DOMAIN requests

\* The handler of client q goes on with the local variables locals.
Continue(q, locals) ==
    requests' = [x \in DOMAIN requests \cup {q} |-> IF x = q THEN locals ELSE requests[x]]

\* The handler has committed for the last time; it sends its redirect.
Respond(q) ==
    /\ q \in DOMAIN requests /\ requests[q].pc = "done"
    /\ requests' = [x \in DOMAIN requests \ {q} |-> requests[x]]
    /\ UNCHANGED <<catalog, reviews, sqlite_sequence, last>>

\* move_section, lines 280-291: the neighbour of a row with sort_order
\* current_order in table cs (0 when there is none).
NeighbourOf(cs, current_order, direction) ==
    IF direction = "up"
    THEN LastInOrder(cs, {s \in DOMAIN cs : cs[s].sort_order < current_order})
    ELSE FirstInOrder(cs, {s \in DOMAIN cs : cs[s].sort_order > current_order})

\* move_section, lines 271-292: the two SELECTs. Without a row or without a
\* neighbour the handler writes nothing and redirects.
MoveSectionRead(q, section_id, direction) ==
    LET exists == section_id # 0 /\ direction \in {"up", "down"}
                  /\ section_id \in DOMAIN checklist_section
        current_order == checklist_section[section_id].sort_order
        neighbour == NeighbourOf(checklist_section, current_order, direction)
    IN  /\ Idle(q)
        /\ IF exists /\ neighbour # 0
           THEN /\ Continue(q, [op |-> "move_section", pc |-> "write",
                                section_id |-> section_id, direction |-> direction,
                                current_order |-> current_order,
                                neighbour |-> [id |-> neighbour,
                                               sort_order |-> checklist_section[neighbour].sort_order],
                                read |-> checklist_section])
                /\ UNCHANGED last
           ELSE /\ UNCHANGED requests
                /\ last' = [op |-> "move_section", section_id |-> section_id,
                            direction |-> direction]
        /\ UNCHANGED <<catalog, reviews, sqlite_sequence>>

\* MoveSectionWrite whose second UPDATE names the moved section again.
MoveSectionWriteOneRow(q) ==
    LET l == requests[q]
    IN  /\ q \in DOMAIN requests /\ l.op = "move_section" /\ l.pc = "write"
        /\ checklist_section' =
             [s \in DOMAIN checklist_section |->
                IF s = l.section_id
                THEN [checklist_section[s] EXCEPT !.sort_order = l.current_order]
                ELSE checklist_section[s]]
        /\ Continue(q, [op |-> "move_section", pc |-> "done",
                        section_id |-> l.section_id, direction |-> l.direction,
                        read |-> l.read, before |-> checklist_section,
                        after |-> checklist_section'])
        /\ last' = [op |-> "move_section", section_id |-> l.section_id,
                    direction |-> l.direction]
        /\ UNCHANGED <<checklist, reviews, sqlite_sequence>>

\* move_section, lines 293-302: the two UPDATEs, with the values read before,
\* and the commit. An UPDATE of a row deleted meanwhile matches nothing.
\* read, before and after are the table as the SELECTs saw it, as the UPDATEs
\* found it and as they left it.
MoveSectionWrite(q) ==
    LET l == requests[q]
    IN  /\ q \in DOMAIN requests /\ l.op = "move_section" /\ l.pc = "write"
        /\ checklist_section' =
             [s \in DOMAIN checklist_section |->
                IF s = l.neighbour.id
                THEN [checklist_section[s] EXCEPT !.sort_order = l.current_order]
                ELSE IF s = l.section_id
                THEN [checklist_section[s] EXCEPT !.sort_order = l.neighbour.sort_order]
                ELSE checklist_section[s]]
        /\ Continue(q, [op |-> "move_section", pc |-> "done",
                        section_id |-> l.section_id, direction |-> l.direction,
                        read |-> l.read, before |-> checklist_section,
                        after |-> checklist_section'])
        /\ last' = [op |-> "move_section", section_id |-> l.section_id,
                    direction |-> l.direction]
        /\ UNCHANGED <<checklist, reviews, sqlite_sequence>>

\* review_new (create), lines 491-531: the validation, then the INSERT of
\* the review row and the first commit.
CreateInsertReview(q, from_id, app_name, app_id, date, section_ids) ==
    LET review_id == sqlite_sequence.review + 1
        ok == Strip(app_name) # "" /\ Strip(app_id) # "" /\ Strip(date) # ""
              /\ section_ids # {}
    IN  /\ Idle(q)
        /\ IF ok
           THEN /\ review' = Insert(review, review_id,
                                [status |-> "in_progress", archived |-> 0])
                /\ sqlite_sequence' = [sqlite_sequence EXCEPT !.review = review_id]
                /\ Continue(q, [op |-> "create", pc |-> "sections", from_id |-> from_id,
                                review_id |-> review_id, section_ids |-> section_ids])
                /\ UNCHANGED last
           ELSE /\ UNCHANGED <<review, sqlite_sequence, requests>>
                /\ last' = [op |-> "create", ok |-> FALSE, from_id |-> from_id,
                            review_id |-> 0, section_ids |-> section_ids]
        /\ UNCHANGED <<catalog, review_section, review_result>>

\* review_new (create), lines 532-537: the review_section rows, second commit.
CreateInsertSections(q) ==
    LET l == requests[q]
    IN  /\ q \in DOMAIN requests /\ l.op = "create" /\ l.pc = "sections"
        /\ review_section' = review_section \cup {<<l.review_id, s>> : s \in l.section_ids}
        /\ Continue(q, [l EXCEPT !.pc = "results"])
        /\ UNCHANGED <<catalog, review, review_result, sqlite_sequence, last>>

\* review_new (create), lines 538-562: the blank result rows, the values
\* carried forward from from_id, third commit.
CreateInsertResults(q) ==
    LET l == requests[q]
        blank == InsertBlankResults(review_result, l.review_id, l.section_ids)
    IN  /\ q \in DOMAIN requests /\ l.op = "create" /\ l.pc = "results"
        /\ review_result' =
             IF l.from_id # 0 THEN CarryForward(blank, l.from_id, l.review_id) ELSE blank
        /\ Continue(q, [l EXCEPT !.pc = "done"])
        /\ last' = [op |-> "create", ok |-> TRUE, from_id |-> l.from_id,
                    review_id |-> l.review_id, section_ids |-> l.section_ids]
        /\ UNCHANGED <<catalog, review, review_section, sqlite_sequence>>

\* RunSave that replaces the review's rows by the posted ones.
RunSaveReplacingRows(q, review_id, form, action) ==
    LET kept == [k \in {p \in DOMAIN review_result : p[1] # review_id} |-> review_result[k]]
    IN  /\ Idle(q)
        /\ IF review_id \in DOMAIN review
           THEN /\ review_result' = SaveResults(kept, review_id, form)
                /\ Continue(q, [op |-> "run", pc |-> IF action = "finish" THEN "finish" ELSE "done",
                                review_id |-> review_id, form |-> form, action |-> action,
                                before |-> review_result, after |-> review_result'])
           ELSE UNCHANGED <<review_result, requests>>
        /\ last' = IF action = "finish" /\ review_id \in DOMAIN review THEN last
                   ELSE [op |-> "run", review_id |-> review_id, action |-> action,
                         was |-> IF review_id \in DOMAIN review
                                 THEN review[review_id].status ELSE NULL]
        /\ UNCHANGED <<catalog, review, review_section, sqlite_sequence>>

\* review_run (POST), lines 577-607: 404 on a missing review, else the two
\* upsert loops and the commit. before and after are the table the upserts
\* were made on and the table they left.
RunSave(q, review_id, form, action) ==
    /\ Idle(q)
    /\ IF review_id \in DOMAIN review
       THEN /\ review_result' = SaveResults(review_result, review_id, form)
            /\ Continue(q, [op |-> "run", pc |-> IF action = "finish" THEN "finish" ELSE "done",
                            review_id |-> review_id, form |-> form, action |-> action,
                            before |-> review_result, after |-> review_result'])
       ELSE UNCHANGED <<review_result, requests>>
    /\ last' = IF action = "finish" /\ review_id \in DOMAIN review THEN last
               ELSE [op |-> "run", review_id |-> review_id, action |-> action,
                     was |-> IF review_id \in DOMAIN review
                             THEN review[review_id].status ELSE NULL]
    /\ UNCHANGED <<catalog, review, review_section, sqlite_sequence>>

\* review_run (POST), lines 609-615: the UPDATE of the status, second commit.
RunFinish(q) ==
    LET l == requests[q]
    IN  /\ q \in DOMAIN requests /\ l.op = "run" /\ l.pc = "finish"
        /\ review' = UpdateReviews({l.review_id}, "status", "completed")
        /\ Continue(q, [l EXCEPT !.pc = "done"])
        /\ last' = [op |-> "run", review_id |-> l.review_id, action |-> "finish",
                    was |-> IF l.review_id \in DOMAIN review
                            THEN review[l.review_id].status ELSE NULL]
        /\ UNCHANGED <<catalog, review_section, review_result, sqlite_sequence>>

\* ------------------------------------------------------ specifications
Directions == {"up", "down"}

\* A posted run form with fields for one checklist id; "-" is an absent field.
Form(cid, result, attachment) ==
    [result |-> IF result = "-" THEN << >> ELSE (cid :> result),
     attachment |-> IF attachment = "-" THEN << >> ELSE (cid :> attachment)]

\* The metadata of a valid new-review form.
Meta == [app_name |-> "app", app_id |-> "1", date |-> "2026-01-01"]

\* Spec: the review lifecycle, the bulk operations and re-review, on reviews
\* of section 1.
SectionIds == 1..MaxSections
ItemIds == 1..MaxItems
ReviewIds == 1..MaxReviews

Next ==
    \/ /\ sqlite_sequence.checklist < MaxItems
       /\ AddItem(1, "x")
    \/ /\ sqlite_sequence.review < MaxReviews
       /\ \E f \in {0} \cup ReviewIds :
            ReviewNewCreate(f, Meta.app_name, Meta.app_id, Meta.date, {1})
    \/ \E r \in ReviewIds, c \in ItemIds : ReviewRunPost(r, Form(c, "Pass", "-"), "save")
    \/ \E r \in ReviewIds : ReviewRunPost(r, Form(0, "-", "-"), "finish")
    \/ \E r \in ReviewIds : Approve(r)
    \/ \E r \in ReviewIds : Reject(r)
    \/ \E r \in ReviewIds : Archive(r)
    \/ \E r \in ReviewIds : Unarchive(r)
    \/ \E ids \in SUBSET ReviewIds : BulkArchive(ids)
    \/ \E ids \in SUBSET ReviewIds : BulkUnarchive(ids)
    \/ \E ids \in SUBSET ReviewIds : BulkDelete(ids)

Spec == Init /\ [][Next]_vars

\* SpecRereview: creation and re-review over any section selection, while
\* sections and items are added and sections deleted. Results are posted for
\* the items the run page shows (under Spec, for any checklist id).
NextRereview ==
    \/ /\ sqlite_sequence.checklist_section < MaxSections
       /\ AddSection("A")
    \/ \E s \in SectionIds : DeleteSection(s)
    \/ /\ sqlite_sequence.checklist < MaxItems
       /\ \E s \in SectionIds : AddItem(s, "x")
    \/ /\ sqlite_sequence.review < MaxReviews
       /\ \E f \in {0} \cup ReviewIds, ss \in SUBSET SectionIds :
            ReviewNewCreate(f, Meta.app_name, Meta.app_id, Meta.date, ss)
    \/ \E r \in ReviewIds, c \in ItemIds :
          /\ c \in VisibleItems(r)
          /\ ReviewRunPost(r, Form(c, "Pass", "ref"), "save")
    \/ \E r \in ReviewIds : ReviewRunPost(r, Form(0, "-", "-"), "finish")

SpecRereview == Init /\ [][NextRereview]_vars

\* SpecCatalog: sections and items are added, moved and deleted.
CatSectionIds == 1..CatSections
CatItemIds == 1..CatItems

\* The lines of a pasted text: two criteria around a blank line.
PastedLines == <<"x", " ", "y">>

NextCatalog ==
    \/ /\ sqlite_sequence.checklist_section < CatSections
       /\ AddSection("A")
    \/ \E s \in CatSectionIds : DeleteSection(s)
    \/ \E s \in CatSectionIds, d \in Directions : MoveSection(s, d)
    \/ /\ sqlite_sequence.checklist < CatItems
       /\ \E s \in CatSectionIds : AddItem(s, "x")
    \/ /\ sqlite_sequence.checklist + 1 < CatItems
       /\ \E s \in CatSectionIds : PasteItems(s, PastedLines)

SpecCatalog == Init /\ [][NextCatalog]_vars

\* SpecFrame: every catalog operation, on a catalog that reviews were created
\* against.
NextFrame ==
    \/ /\ sqlite_sequence.checklist_section < MaxSections
       /\ AddSection("A")
    \/ \E s \in SectionIds : RenameSection(s, "A")
    \/ \E s \in SectionIds : DeleteSection(s)
    \/ \E s \in SectionIds, d \in Directions : MoveSection(s, d)
    \/ \E c \in ItemIds, d \in Directions : MoveItem(c, d)
    \/ \E ids \in SUBSET ItemIds : RemoveItems(ids)
    \/ \E a, b \in ItemIds : Reorder(<<a, b>>)
    \/ /\ sqlite_sequence.checklist < MaxItems
       /\ \E s \in SectionIds : AddItem(s, "x")
    \/ /\ sqlite_sequence.checklist < MaxItems
       /\ \E s \in SectionIds : PasteItems(s, <<"", "x">>)
    \/ \E s \in SectionIds, d \in BOOLEAN : SetSectionDefault(s, d)
    \/ /\ sqlite_sequence.checklist < MaxItems
       /\ sqlite_sequence.checklist_section < MaxSections
       /\ \E n \in {"Section 1", "A"} : ImportCsv(<<[section_name |-> n, criteria |-> "x"]>>)
    \/ /\ sqlite_sequence.review < FrameReviews
       /\ \E ss \in SUBSET SectionIds :
            ReviewNewCreate(0, Meta.app_name, Meta.app_id, Meta.date, ss)

SpecFrame == Init /\ [][NextFrame]_vars

\* SpecRun: reviews are created from forms with filled and blank fields, and
\* results and attachments are posted for the items the run page shows, in
\* every combination of present, blank and absent fields.
RunItemIds == 1..RunItems
RunReviewIds == 1..RunReviews
PostedResults == {"-", "Pass", "Fail"}
PostedAttachments == {"-", "", " ", "ref"}
\* The fields of a posted new-review form: filled in, empty or blank.
PostedNames == {Meta.app_name, "", " "}
PostedAppIds == {Meta.app_id, ""}
PostedDates == {Meta.date, ""}
PostedSections == {{}, {1}}

NextRun ==
    \/ /\ sqlite_sequence.checklist < RunItems
       /\ AddItem(1, "x")
    \/ /\ sqlite_sequence.review < RunReviews
       /\ \E n \in PostedNames, i \in PostedAppIds, d \in PostedDates, ss \in PostedSections :
            ReviewNewCreate(0, n, i, d, ss)
    \/ \E r \in RunReviewIds, c \in RunItemIds, res \in PostedResults,
          att \in PostedAttachments, act \in {"save", "finish"} :
          /\ c \in VisibleItems(r)
          /\ ReviewRunPost(r, Form(c, res, att), act)

SpecRun == Init /\ [][NextRun]_vars

\* SpecLegacy: a database from before the section selection: review 1 has no
\* review_section row ("all sections", backward compat), the catalog is the
\* 'Section 1' of the migration with one item, for which review 1 has a row.
LegacyItemIds == 1..LegacyItems

InitLegacy ==
    /\ checklist_section = (1 :> [sort_order |-> 0, name |-> "Section 1", is_default |-> 0])
    /\ checklist = (1 :> [section_id |-> 1, sort_order |-> 0, text |-> "x"])
    /\ \E st \in {"in_progress", "completed"} :
         review = (1 :> [status |-> st, archived |-> 0])
    /\ review_section = {}
    /\ \E res \in {NULL, "Pass"} :
         review_result = (<<1, 1>> :> [result |-> res, attachment |-> NULL])
    /\ sqlite_sequence = [checklist_section |-> 1, checklist |-> 1, review |-> 1]
    /\ requests = << >>
    /\ last = [op |-> "init"]

NextLegacy ==
    \/ /\ sqlite_sequence.checklist_section < MaxSections
       /\ AddSection("A")
    \/ \E s \in SectionIds : DeleteSection(s)
    \/ \E s \in SectionIds, d \in Directions : MoveSection(s, d)
    \/ /\ sqlite_sequence.checklist < LegacyItems
       /\ \E s \in SectionIds : AddItem(s, "x")
    \/ \E c \in LegacyItemIds : RemoveItems({c})
    \/ \E c \in LegacyItemIds :
          /\ c \in VisibleItems(1)
          /\ ReviewRunPost(1, Form(c, "Pass", "ref"), "save")

SpecLegacy == InitLegacy /\ [][NextLegacy]_vars

\* SpecMoves: two clients move sections of a catalog that grows, each request
\* at its own pace.
NextMoves ==
    \/ /\ sqlite_sequence.checklist_section < CatSections
       /\ AddSection("A")
    \/ \E q \in Clients, s \in CatSectionIds, d \in Directions : MoveSectionRead(q, s, d)
    \/ \E q \in Clients : MoveSectionWrite(q)
    \/ \E q \in Clients : Respond(q)

SpecMoves == Init /\ [][NextMoves]_vars

\* SpecCreate: two clients create reviews and re-reviews of section 1, commit
\* by commit, while items are added and results saved.
NextCreate ==
    \/ /\ sqlite_sequence.checklist < RunItems
       /\ AddItem(1, "x")
    \/ /\ sqlite_sequence.review < MaxReviews
       /\ \E q \in Clients, f \in {0} \cup ReviewIds, ss \in PostedSections :
            CreateInsertReview(q, f, Meta.app_name, Meta.app_id, Meta.date, ss)
    \/ \E q \in Clients : CreateInsertSections(q)
    \/ \E q \in Clients : CreateInsertResults(q)
    \/ \E q \in Clients : Respond(q)
    \/ \E r \in ReviewIds, c \in RunItemIds :
          /\ c \in VisibleItems(r)
          /\ ReviewRunPost(r, Form(c, "Pass", "-"), "save")

SpecCreate == Init /\ [][NextCreate]_vars

\* SpecUpsert: two clients post results for the items of the run page of one
\* review, and finish it.
NextUpsert ==
    \/ /\ sqlite_sequence.checklist < RunItems
       /\ AddItem(1, "x")
    \/ /\ sqlite_sequence.review < RunReviews
       /\ ReviewNewCreate(0, Meta.app_name, Meta.app_id, Meta.date, {1})
    \/ \E q \in Clients, r \in RunReviewIds, c \in RunItemIds, res \in {"Pass", "Fail"},
          act \in {"save", "finish"} :
          /\ c \in VisibleItems(r)
          /\ RunSave(q, r, Form(c, res, "-"), act)
    \/ \E q \in Clients : RunFinish(q)
    \/ \E q \in Clients : Respond(q)

SpecUpsert == Init /\ [][NextUpsert]_vars

\* SpecImport: files of up to ImpRows rows, with known and unknown section
\* names, repeated and blank fields, are imported into a catalog that sections
\* and items were added to.
ImpSectionIds == 1..ImpSections
ImportNames == {"A", "B", " "}
ImportCriteria == {"x", "y", ""}
ImportRowSet == [section_name : ImportNames, criteria : ImportCriteria]
ImportFiles == UNION {[1..n -> ImportRowSet] : n \in 1..ImpRows}

NextImport ==
    \/ /\ sqlite_sequence.checklist_section < ImpSections
       /\ AddSection("A")
    \/ /\ sqlite_sequence.checklist < ImpItems
       /\ \E s \in ImpSectionIds : AddItem(s, "x")
    \/ \E rows \in ImportFiles :
         /\ sqlite_sequence.checklist_section + Len(rows) <= ImpSections
         /\ sqlite_sequence.checklist + Len(rows) <= ImpItems
         /\ ImportCsv(rows)

SpecImport == Init /\ [][NextImport]_vars

\* ================================================================ claims
\* The review_result rows of one review, by checklist id.
ResultRows(rr, review_id) ==
    [c \in ResultIds(rr, review_id) |-> rr[<<review_id, c>>]]

\* C1: bulk_delete never removes a review whose archived flag is false: every
\* review that existed with archived = 0 before bulk_delete(ids) exists
\* afterwards with the same status, archived flag and result rows, and every
\* listed review with archived = 1 is removed.
C1_BulkDeleteSparesUnarchived ==
    [][last'.op = "bulk_delete" =>
        /\ \A r \in DOMAIN review :
             review[r].archived = 0 =>
                /\ r \in DOMAIN review'
                /\ review'[r] = review[r]
                /\ ResultRows(review_result', r) = ResultRows(review_result, r)
        /\ \A r \in DOMAIN review :
             (r \in last'.ids /\ review[r].archived = 1) => r \notin DOMAIN review'
    ]_vars

\* C1 witness: a bulk_delete that listed an archived review, which it deleted,
\* and an unarchived one, which is still there with a recorded result.
C1_Witness ==
    /\ last.op = "bulk_delete"
    /\ last.deleted = 1
    /\ \E r \in last.ids :
         /\ r \in DOMAIN review
         /\ review[r].archived = 0
         /\ \E c \in ResultIds(review_result, r) : review_result[<<r, c>>].result = "Pass"

\* C9 (as claimed): every review_result row and every review_section row
\* refers to a review that exists.
C9_RowsReferToExistingReview ==
    /\ \A k \in DOMAIN review_result : k[1] \in DOMAIN review
    /\ \A p \in review_section : p[1] \in DOMAIN review

\* A successful POST action == "create" was the last request.
Created == last.op = "create" /\ last.ok

\* ... and it was a re-review of a review that exists.
CreatedFrom == Created /\ last.from_id \in DOMAIN review /\ last.from_id # last.review_id

\* The items whose section is one of section_ids.
ItemsIn(section_ids) == {c \in DOMAIN checklist : checklist[c].section_id \in section_ids}

BlankRow == [result |-> NULL, attachment |-> NULL]

\* C2: re-review carry-forward: right after create_from has made R2 from R,
\* every checklist item with a result row in both has the same result and the
\* same attachment in R2 as in R.
C2_CarryForwardVerbatim ==
    CreatedFrom =>
        \A c \in ResultIds(review_result, last.from_id)
                 \cap ResultIds(review_result, last.review_id) :
            /\ review_result[<<last.review_id, c>>].result
                 = review_result[<<last.from_id, c>>].result
            /\ review_result[<<last.review_id, c>>].attachment
                 = review_result[<<last.from_id, c>>].attachment

\* C2 witness: a re-review that carried a recorded result and its attachment
\* to the new review, which also has a row for an item the source has none for.
C2_Witness ==
    /\ CreatedFrom
    /\ \E c \in ResultIds(review_result, last.review_id) :
         /\ <<last.from_id, c>> \in DOMAIN review_result
         /\ review_result[<<last.from_id, c>>] = [result |-> "Pass", attachment |-> "ref"]
    /\ \E c \in ResultIds(review_result, last.review_id) :
         <<last.from_id, c>> \notin DOMAIN review_result

\* C3 (as claimed): right after create_from, R2 has result rows for exactly
\* the items of the newly selected sections; an item that is visible under the
\* new selection and not under the source's has a null result and a null
\* attachment; a source item outside the new selection has no row in R2.
C3_NewOnlyItemsBlank ==
    CreatedFrom =>
        /\ ResultIds(review_result, last.review_id) = ItemsIn(last.section_ids)
        /\ \A c \in VisibleItems(last.review_id) \ VisibleItems(last.from_id) :
             review_result[<<last.review_id, c>>] = BlankRow
        /\ \A c \in ResultIds(review_result, last.from_id) \ ItemsIn(last.section_ids) :
             <<last.review_id, c>> \notin DOMAIN review_result

UnrelatedCatalogOps ==
    {"add_section", "rename_section", "move_section", "set_section_default",
     "delete_section", "add", "paste", "import_csv", "move_item", "reorder"}

\* C5: for every existing review, the set of checklist ids with a result row
\* is unchanged by add_section, rename_section, move_section,
\* set_section_default, delete_section, add_item, paste_items, import_tabular,
\* move_item and reorder_items (on any section, selected by the review or not).
C5_CatalogEditsKeepResultSet ==
    [][last'.op \in UnrelatedCatalogOps =>
        \A r \in DOMAIN review :
            ResultIds(review_result', r) = ResultIds(review_result, r)
    ]_vars

\* C5 witness: an item was just added to a section that review 1, which has
\* result rows, did not select.
C5_Witness ==
    /\ last.op = "add"
    /\ 1 \in DOMAIN review
    /\ ResultIds(review_result, 1) # {}
    /\ sqlite_sequence.checklist \in DOMAIN checklist
    /\ checklist[sqlite_sequence.checklist].section_id \notin GetReviewSectionIds(1)
    /\ sqlite_sequence.checklist \notin ResultIds(review_result, 1)

\* C6 (as claimed): the catalog holds at least one section in every state.
C6_AtLeastOneSection == DOMAIN checklist_section # {}

\* The section that is first among the sections other than s in
\* (sort_order, id) order, stated on the rows themselves.
IsFirstRemaining(t, s) ==
    /\ t \in DOMAIN checklist_section \ {s}
    /\ \A u \in DOMAIN checklist_section \ {s, t} :
         \/ checklist_section[t].sort_order < checklist_section[u].sort_order
         \/ /\ checklist_section[t].sort_order = checklist_section[u].sort_order
            /\ t < u

\* C7: delete_section(S), when a section other than S exists, moves every item
\* of S to the section T that is first among the remaining sections in
\* (sort_order, id) order, removes S, and changes no other item's section_id
\* and no other section.
C7_DeleteSectionReassignsToFirst ==
    [][(last'.op = "delete_section" /\ DOMAIN checklist_section \ {last'.section_id} # {}) =>
        \E t \in DOMAIN checklist_section :
            /\ IsFirstRemaining(t, last'.section_id)
            /\ DOMAIN checklist' = DOMAIN checklist
            /\ \A c \in DOMAIN checklist :
                 checklist'[c].section_id =
                    IF checklist[c].section_id = last'.section_id THEN t
                    ELSE checklist[c].section_id
            /\ DOMAIN checklist_section' = DOMAIN checklist_section \ {last'.section_id}
            /\ \A u \in DOMAIN checklist_section' : checklist_section'[u] = checklist_section[u]
    ]_vars

\* C7 witness: a section was just deleted, two sections remain, the first of
\* them in (sort_order, id) order is not the one with the lowest id, and it
\* holds every item.
C7_Witness ==
    /\ last.op = "delete_section"
    /\ last.section_id \notin DOMAIN checklist_section
    /\ last.section_id <= sqlite_sequence.checklist_section
    /\ Cardinality(DOMAIN checklist_section) = 2
    /\ DOMAIN checklist # {}
    /\ \E t \in DOMAIN checklist_section :
         /\ IsFirstRemaining(t, last.section_id)
         /\ \E u \in DOMAIN checklist_section : u < t
         /\ \A c \in DOMAIN checklist : checklist[c].section_id = t

\* C8 (as claimed): every item's section_id refers to a section that exists.
C8_ItemsReferToExistingSection ==
    \A c \in DOMAIN checklist : checklist[c].section_id \in DOMAIN checklist_section

\* C10 (as claimed): every review_result row refers to an item that exists.
C10_RowsReferToExistingItem ==
    \A k \in DOMAIN review_result : k[2] \in DOMAIN checklist
\* C11 (as claimed): a record_result that supplies only an attachment for
\* (review, item) leaves the stored result unchanged, and one that supplies
\* only a result leaves the stored attachment unchanged.
C11_ResultAndAttachmentIndependent ==
    [][\A r \in DOMAIN review, c \in RunItemIds :
        <<r, c>> \in DOMAIN review_result =>
            /\ (\E att \in PostedAttachments \ {"-"} :
                    ReviewRunPost(r, Form(c, "-", att), "save"))
                => review_result'[<<r, c>>].result = review_result[<<r, c>>].result
            /\ (\E res \in RESULTS : ReviewRunPost(r, Form(c, res, "-"), "save"))
                => review_result'[<<r, c>>].attachment = review_result[<<r, c>>].attachment
    ]_vars

\* The target status of the status-changing request handled last, on a review
\* that exists; NULL for every other request.
TargetStatus(l) ==
    IF l.op = "approve" THEN "approved"
    ELSE IF l.op = "reject" THEN "rejected"
    ELSE IF l.op = "run" /\ l.action = "finish" THEN "completed"
    ELSE NULL

\* C12: no status transition is blocked by the current state or by result
\* completeness: on an existing review of any status and any archived value,
\* with any number of null result rows, finish sets status to completed,
\* approve sets it to approved and reject sets it to rejected.
C12_TransitionsNeverBlocked ==
    [][(TargetStatus(last') # NULL /\ last'.review_id \in DOMAIN review) =>
            /\ last'.review_id \in DOMAIN review'
            /\ review'[last'.review_id].status = TargetStatus(last')
    ]_vars

\* C12 witness: finish was just accepted on an archived review that was
\* approved and whose result rows are all null.
C12_Witness ==
    /\ last.op = "run" /\ last.action = "finish" /\ last.was = "approved"
    /\ last.review_id \in DOMAIN review
    /\ review[last.review_id] = [status |-> "completed", archived |-> 1]
    /\ ResultIds(review_result, last.review_id) # {}
    /\ \A c \in ResultIds(review_result, last.review_id) :
         review_result[<<last.review_id, c>>].result = NULL

\* The tables and the counters: the state without the request history.
database == <<catalog, reviews, sqlite_sequence>>

\* C13: approve is idempotent: approve(id) on an existing review leaves it
\* with status approved, and an approve(id) that directly follows an
\* approve(id) leaves the whole database as the first call left it.
C13_ApproveIdempotent ==
    [][(last'.op = "approve" /\ last'.review_id \in DOMAIN review) =>
            /\ last'.review_id \in DOMAIN review'
            /\ review'[last'.review_id].status = "approved"
            /\ last'.again => database' = database
    ]_vars

\* C13 witness: approve was just called on an existing review directly after
\* an approve of the same review, which has a recorded result and is approved.
C13_Witness ==
    /\ last.op = "approve" /\ last.again
    /\ last.review_id \in DOMAIN review
    /\ review[last.review_id].status = "approved"
    /\ \E c \in ResultIds(review_result, last.review_id) :
         review_result[<<last.review_id, c>>].result = "Pass"

\* The requests that set the archived flag, and those that set the status.
ArchivalOps == {"archive", "unarchive", "bulk_archive", "bulk_unarchive"}

\* C14: status and archived are orthogonal: archive, unarchive, bulk_archive
\* and bulk_unarchive change no review's status, and finish, approve and
\* reject change no review's archived flag.
C14_StatusArchivedOrthogonal ==
    [][/\ last'.op \in ArchivalOps =>
            \A r \in DOMAIN review :
                r \in DOMAIN review' /\ review'[r].status = review[r].status
       /\ TargetStatus(last') # NULL =>
            \A r \in DOMAIN review :
                r \in DOMAIN review' /\ review'[r].archived = review[r].archived
    ]_vars

\* C14 witness: unarchive was just handled on a rejected review that was
\* archived: it is active and still rejected.
C14_Witness ==
    /\ last.op = "unarchive" /\ last.flag = 1
    /\ last.review_id \in DOMAIN review
    /\ review[last.review_id] = [status |-> "rejected", archived |-> 0]

\* C15 is a claim that states exist (ten combinations are reachable), not a
\* property of every state or behaviour. What the handlers do is stated by
\* the two definitions below: no review ever has status draft, and each of the
\* other eight combinations is the state of some review in a reachable state.
StatusNeverDraft == \A r \in DOMAIN review : review[r].status # "draft"

SomeReviewIs(status, archived) ==
    \E r \in DOMAIN review : review[r] = [status |-> status, archived |-> archived]

\* C16: a review disappears only through bulk_delete while archived: in every
\* step in which an existing review ceases to exist, the step is a bulk_delete
\* that lists its id, and the review had archived = 1 immediately before.
C16_OnlyBulkDeleteRemovesReviews ==
    [][\A r \in DOMAIN review :
        r \notin DOMAIN review' =>
            /\ last'.op = "bulk_delete"
            /\ r \in last'.ids
            /\ review[r].archived = 1
    ]_vars

\* C16 witness: a bulk_delete just removed the one review it listed, and an
\* archived review that it did not list is still there.
C16_Witness ==
    /\ last.op = "bulk_delete" /\ last.deleted = 1
    /\ \E r \in last.ids : r \in 1..sqlite_sequence.review /\ r \notin DOMAIN review
    /\ \E r \in DOMAIN review : r \notin last.ids /\ review[r].archived = 1

\* The checklist ids a run / detail view shows.
ViewItemIds(view) ==
    UNION {{view[g].items[i].id : i \in 1..Len(view[g].items)} : g \in 1..Len(view)}

\* C17: legacy all-sections mode is live: in every state, the run view of a
\* review with no section selection row shows every item of the catalog, so
\* an item added to a section created after the review is shown at once.
C17_LegacyReviewSeesEveryItem ==
    \A r \in DOMAIN review :
        GetReviewSectionIds(r) = {} => ViewItemIds(ReviewRunView(r)) = DOMAIN checklist

\* C17 witness: an item was just added to a section that did not exist when
\* legacy review 1 was made; the review has no result row for it and its run
\* view shows it.
C17_Witness ==
    LET c == sqlite_sequence.checklist
    IN  /\ last.op = "add"
        /\ 1 \in DOMAIN review /\ GetReviewSectionIds(1) = {}
        /\ c \in DOMAIN checklist
        /\ checklist[c].section_id \in DOMAIN checklist_section \ {1}
        /\ <<1, c>> \notin DOMAIN review_result
        /\ c \in ViewItemIds(ReviewRunView(1))

\* The run view of a pinned review shows exactly the items whose current
\* section_id is one of the review's selected sections.
PinnedViewIsSelection ==
    \A r \in DOMAIN review :
        GetReviewSectionIds(r) # {} =>
            ViewItemIds(ReviewRunView(r))
              = {c \in DOMAIN checklist : checklist[c].section_id \in GetReviewSectionIds(r)}

\* C18 (as claimed): for a review with a non-empty section selection the
\* resolved item set is exactly the items whose current section_id is in the
\* selected set, and a section created after the review is never one of the
\* selected sections, so that no item in it becomes visible.
C18_PinnedViewFollowsSelection ==
    /\ []PinnedViewIsSelection
    /\ [][\A r \in DOMAIN review :
            \A s \in DOMAIN checklist_section' \ DOMAIN checklist_section :
                GetReviewSectionIds(r) # {} => s \notin GetReviewSectionIds(r)
       ]_vars

\* The review_section rows of one review.
SelectionRows(rs, review_id) == {p \in rs : p[1] = review_id}

\* C19: a review's section selection is permanent: no step changes the set of
\* review_section rows of a review that exists before and after it, whatever
\* the operation (delete_section of a selected section included).
C19_SelectionPermanent ==
    [][\A r \in DOMAIN review \cap DOMAIN review' :
        SelectionRows(review_section', r) = SelectionRows(review_section, r)
    ]_vars

\* C19 witness: the only section review 1 selected was just deleted, and the
\* review still has its selection row for it.
C19_Witness ==
    /\ last.op = "delete_section"
    /\ last.section_id \in 1..sqlite_sequence.checklist_section
    /\ last.section_id \notin DOMAIN checklist_section
    /\ 1 \in DOMAIN review
    /\ GetReviewSectionIds(1) = {last.section_id}

\* A run / detail view without the ids of its items.
WithoutIds(view) ==
    [g \in 1..Len(view) |->
        [name |-> view[g].name,
         items |-> [i \in 1..Len(view[g].items) |->
                      [text |-> view[g].items[i].text,
                       result |-> view[g].items[i].result,
                       attachment |-> view[g].items[i].attachment]]]]

\* C20: for every review, in every state, the run-checklist view, the detail
\* view and the PDF export compute the same sequence of section groups, with
\* the same items in the same order and the same result and attachment per
\* item (the export's items carry no id).
C20_ThreeViewsAgree ==
    \A r \in DOMAIN review :
        /\ ReviewDetailView(r) = ReviewRunView(r)
        /\ PdfExportView(r) = WithoutIds(ReviewRunView(r))

\* C20 witness: a review whose views have two groups, the first one "General"
\* (an item whose section row is missing), with a recorded result and its
\* attachment, while the catalog has an item the views leave out.
C20_Witness ==
    \E r \in DOMAIN review :
        LET view == PdfExportView(r)
        IN  /\ Len(view) = 2
            /\ view[1].name = "General"
            /\ \E g \in 1..Len(view) : \E i \in 1..Len(view[g].items) :
                  /\ view[g].items[i].result = "Pass"
                  /\ view[g].items[i].attachment = "ref"
            /\ \E r2 \in DOMAIN review : ViewItemIds(ReviewRunView(r2)) # DOMAIN checklist

\* The checklist ids of a run / detail view, in the order the page lists them.
RECURSIVE ViewItemSeq(_)
ViewItemSeq(view) ==
    IF view = << >> THEN << >>
    ELSE [i \in 1..Len(Head(view).items) |-> Head(view).items[i].id]
         \o ViewItemSeq(Tail(view))

\* C21: the items a review resolves to are its visible items, each once, in
\* (section sort_order, section id, item sort_order, item id) order, and all
\* items of one section are contiguous in the list.
C21_ItemsSortedAndContiguous ==
    \A r \in DOMAIN review :
        LET items == ViewItemSeq(ReviewRunView(r))
            sec(i) == checklist[items[i]].section_id
            Key(i) == <<checklist_section[sec(i)].sort_order, sec(i),
                        checklist[items[i]].sort_order, items[i]>>
        IN  /\ {items[i] : i \in 1..Len(items)} = VisibleItems(r)
            /\ \A i, j \in 1..Len(items) :
                  i < j =>
                    /\ items[i] # items[j]
                    /\ (sec(i) \in DOMAIN checklist_section
                          /\ sec(j) \in DOMAIN checklist_section)
                        => KeyBefore(Key(i), Key(j))
                    /\ \A k \in 1..Len(items) :
                          (j < k /\ sec(i) = sec(k)) => sec(j) = sec(i)

\* C22: the listing has one entry per review, on the tab of its archived
\* flag; the entry of a review without result rows shows no fraction, and
\* otherwise total is the number of the review's result rows, filled the
\* number of those with a non-null result, 0 <= filled <= total, and the
\* percentage is floor(100 * filled / total).
C22_ListingProgress ==
    LET listed == Index.reviews_active \cup Index.reviews_archived
        rows(r) == {k \in DOMAIN review_result : k[1] = r}
        nonnull(r) == {k \in rows(r) : review_result[k].result \in RESULTS}
    IN  /\ {e.id : e \in listed} = DOMAIN review
        /\ Cardinality(listed) = Cardinality(DOMAIN review)
        /\ \A e \in Index.reviews_active : review[e.id].archived = 0
        /\ \A e \in Index.reviews_archived : review[e.id].archived = 1
        /\ \A e \in listed :
              IF rows(e.id) = {} THEN e.progress = <<"-">>
              ELSE /\ Len(e.progress) = 3
                   /\ e.progress[1] = Cardinality(nonnull(e.id))
                   /\ e.progress[2] = Cardinality(rows(e.id))
                   /\ 0 <= e.progress[1] /\ e.progress[1] <= e.progress[2]
                   /\ e.progress[3] * e.progress[2] <= 100 * e.progress[1]
                   /\ 100 * e.progress[1] < (e.progress[3] + 1) * e.progress[2]

\* C22 witness: the listing shows an archived review at 1/2 (50%) and an
\* active review without a fraction, while the catalog has items.
C22_Witness ==
    /\ \E e \in Index.reviews_archived : e.progress = <<1, 2, 50>>
    /\ \E e \in Index.reviews_active : e.progress = <<"-">>
    /\ DOMAIN checklist # {}

\* C23: create_review is rejected when app_name, app_id or date is blank or
\* the list of section ids is empty: such a request inserts no review row, no
\* review_section row and no review_result row (and takes no review id).
C23_RejectedCreateInsertsNothing ==
    [][\A n \in PostedNames, i \in PostedAppIds, d \in PostedDates, ss \in PostedSections :
        (/\ n \in {"", " "} \/ i = "" \/ d = "" \/ ss = {}
         /\ ReviewNewCreate(0, n, i, d, ss))
        => /\ ~last'.ok
           /\ reviews' = reviews
           /\ sqlite_sequence' = sqlite_sequence
    ]_vars

\* C23 witness: a create that listed section 1, which has an item, was just
\* rejected for a blank field, and no review table has a row.
C23_Witness ==
    /\ last.op = "create" /\ ~last.ok
    /\ last.section_ids = {1}
    /\ ItemsOf(1) # {}
    /\ review = << >> /\ review_section = {} /\ review_result = << >>

\* C24 (as claimed): a request that names a review, section or item id that
\* does not exist changes no table: approve, reject, archive, unarchive, save
\* or finish on a missing review, add or paste into a missing section, and a
\* result posted for a missing item of an existing review.
C24_MissingIdMutatesNothing ==
    [][/\ \A r \in ReviewIds \ DOMAIN review :
            (\/ Approve(r) \/ Reject(r) \/ Archive(r) \/ Unarchive(r)
             \/ ReviewRunPost(r, Form(0, "-", "-"), "finish")
             \/ \E c \in ItemIds : ReviewRunPost(r, Form(c, "Pass", "-"), "save"))
            => database' = database
       /\ \A s \in SectionIds \ DOMAIN checklist_section :
            (AddItem(s, "x") \/ PasteItems(s, <<"x">>)) => database' = database
       /\ \A r \in DOMAIN review : \A c \in ItemIds \ DOMAIN checklist :
            ReviewRunPost(r, Form(c, "Pass", "-"), "save") => database' = database
    ]_vars

\* A review's own data: its row, its result rows and its section selection.
ReviewData(rv, rs, rr, r) ==
    [row |-> rv[r], results |-> ResultRows(rr, r), sections |-> SelectionRows(rs, r)]

\* C27: re-review is a snapshot copy: a create from a source review leaves the
\* source's result rows, status, archived flag and section selection as they
\* were, and a later record_result, finish, approve, reject or archive on one
\* review changes nothing of any other review.
C27_RereviewIsSnapshot ==
    [][/\ (last'.op = "create" /\ last'.ok /\ last'.from_id \in DOMAIN review)
            => /\ last'.from_id \in DOMAIN review'
               /\ ReviewData(review', review_section', review_result', last'.from_id)
                    = ReviewData(review, review_section, review_result, last'.from_id)
       /\ last'.op \in {"run", "approve", "reject", "archive"}
            => \A r \in DOMAIN review \ {last'.review_id} :
                 /\ r \in DOMAIN review'
                 /\ ReviewData(review', review_section', review_result', r)
                      = ReviewData(review, review_section, review_result, r)
    ]_vars

\* C27 witness: a review was just created from an approved, archived review
\* and carries its Pass, which the source still has.
C27_Witness ==
    /\ CreatedFrom
    /\ review[last.from_id] = [status |-> "approved", archived |-> 1]
    /\ \E c \in DOMAIN checklist :
          /\ <<last.from_id, c>> \in DOMAIN review_result
          /\ <<last.review_id, c>> \in DOMAIN review_result
          /\ review_result[<<last.from_id, c>>].result = "Pass"
          /\ review_result[<<last.review_id, c>>].result = "Pass"

\* a is the first (last) of the rows ids of table t in (sort_order, id) order.
IsFirstOf(t, ids, a) == \A b \in ids \ {a} : OrderBefore(t, a, b)
IsLastOf(t, ids, a) == \A b \in ids \ {a} : OrderBefore(t, b, a)

\* C29: move_section and move_item are no-ops at the boundary: moving the
\* first section (the first item of its section) up, the last one down, or an
\* id that does not exist, changes no table.
C29_MoveAtBoundaryIsNoOp ==
    [][/\ last'.op = "move_section" =>
            LET s == last'.section_id
                d == last'.direction
                all == DOMAIN checklist_section
            IN  (\/ s \notin all
                 \/ d = "up" /\ IsFirstOf(checklist_section, all, s)
                 \/ d = "down" /\ IsLastOf(checklist_section, all, s))
                => database' = database
       /\ last'.op = "move_item" =>
            LET c == last'.item_id
                d == last'.direction
                peers == ItemsOf(checklist[c].section_id)
            IN  (\/ c \notin DOMAIN checklist
                 \/ d = "up" /\ IsFirstOf(checklist, peers, c)
                 \/ d = "down" /\ IsLastOf(checklist, peers, c))
                => database' = database
    ]_vars

\* C29 witness: the item just moved up is the first of its section, while an
\* item of another section comes before it in (sort_order, id) order, and the
\* catalog has a second section.
C29_Witness ==
    /\ last.op = "move_item" /\ last.direction = "up"
    /\ last.item_id \in DOMAIN checklist
    /\ IsFirstOf(checklist, ItemsOf(checklist[last.item_id].section_id), last.item_id)
    /\ \E c \in DOMAIN checklist :
          /\ checklist[c].section_id # checklist[last.item_id].section_id
          /\ checklist[c].sort_order < checklist[last.item_id].sort_order
    /\ Cardinality(DOMAIN checklist_section) = 2

\* The rows of ids that come between a and b in the (sort_order, id) order of t.
Between(t, ids, a, b) ==
    {c \in ids \ {a, b} : OrderBefore(t, a, c) /\ OrderBefore(t, c, b)}

\* C30 (as claimed): move_section up on a section that is not first puts it
\* immediately before its former predecessor, move_section down on a section
\* that is not last puts it immediately after its former successor, and the
\* relative order of all other sections stays as it was.
C30_MoveSectionSwapsWithNeighbour ==
    [][last'.op = "move_section" /\ last'.section_id \in DOMAIN checklist_section =>
        LET s == last'.section_id
            all == DOMAIN checklist_section
            before == checklist_section
            after == checklist_section'
            othersKept == \A a, b \in all \ {s} :
                            OrderBefore(before, a, b) <=> OrderBefore(after, a, b)
        IN  /\ (last'.direction = "up" /\ ~IsFirstOf(before, all, s)) =>
                  \E p \in all \ {s} :
                    /\ OrderBefore(before, p, s) /\ Between(before, all, p, s) = {}
                    /\ OrderBefore(after, s, p) /\ Between(after, all, s, p) = {}
                    /\ othersKept
            /\ (last'.direction = "down" /\ ~IsLastOf(before, all, s)) =>
                  \E n \in all \ {s} :
                    /\ OrderBefore(before, s, n) /\ Between(before, all, s, n) = {}
                    /\ OrderBefore(after, n, s) /\ Between(after, all, n, s) = {}
                    /\ othersKept
    ]_vars

\* C25 (as claimed): create_review is all-or-nothing for the other requests:
\* in every state, a review row that exists has its section selection rows
\* (it never resolves as an all-sections review), and the review of a create
\* that is still running has all its selection rows and a result row for
\* every item of the chosen sections.
C25_CreateAllOrNothing ==
    /\ \A r \in DOMAIN review : GetReviewSectionIds(r) # {}
    /\ \A q \in DOMAIN requests :
          (requests[q].op = "create" /\ requests[q].review_id \in DOMAIN review) =>
             /\ requests[q].section_ids \subseteq GetReviewSectionIds(requests[q].review_id)
             /\ requests[q].pc # "done" =>
                   ItemsIn(requests[q].section_ids)
                     \subseteq ResultIds(review_result, requests[q].review_id)

\* The checklist ids a posted run form writes.
FormItems(form) ==
    {c \in DOMAIN form.result : form.result[c] \in RESULTS} \cup DOMAIN form.attachment

\* Requests a and b are record_results on one review for different items, and
\* b's write came right after a's.
WroteInTurn(a, b) ==
    /\ a # b
    /\ requests[a].op = "run" /\ requests[b].op = "run"
    /\ requests[a].review_id = requests[b].review_id
    /\ FormItems(requests[a].form) \cap FormItems(requests[b].form) = {}
    /\ requests[b].before = requests[a].after
    /\ review_result = requests[b].after

\* C26: two record_result requests under way on the same review for different
\* items are order-independent: the result rows after both writes are what
\* either serial order gives from the same table, and both writes are there
\* (the table has one row per (review_id, checklist_id): the posted one).
C26_RecordResultOrderIndependent ==
    \A a, b \in DOMAIN requests :
        WroteInTurn(a, b) =>
            LET r == requests[a].review_id
                fa == requests[a].form
                fb == requests[b].form
            IN  /\ review_result = SaveResults(SaveResults(requests[a].before, r, fa), r, fb)
                /\ review_result = SaveResults(SaveResults(requests[a].before, r, fb), r, fa)
                /\ \A c \in DOMAIN fa.result : review_result[<<r, c>>].result = fa.result[c]
                /\ \A c \in DOMAIN fb.result : review_result[<<r, c>>].result = fb.result[c]

\* C26 witness: client b posted and saved a Fail for item 2 between the two
\* commits of client a's finish request, which posted a Pass for item 1; the
\* review has both rows.
C26_Witness ==
    /\ DOMAIN requests = {"a", "b"}
    /\ WroteInTurn("a", "b")
    /\ requests["a"].pc = "finish" /\ requests["b"].pc = "done"
    /\ requests["a"].form = Form(1, "Pass", "-")
    /\ requests["b"].form = Form(2, "Fail", "-")
    /\ <<1, 1>> \in DOMAIN review_result /\ review_result[<<1, 1>>].result = "Pass"
    /\ <<1, 2>> \in DOMAIN review_result /\ review_result[<<1, 2>>].result = "Fail"

\* The section ids of table cs in (sort_order, id) order.
RECURSIVE SectionOrder(_)
SectionOrder(cs) ==
    IF DOMAIN cs = {} THEN << >>
    ELSE LET first == FirstInOrder(cs, DOMAIN cs)
         IN  <<first>> \o SectionOrder(Delete(cs, {first}))

\* move_section(section_id, direction) run alone on table cs.
SerialMove(cs, section_id, direction) ==
    LET n == NeighbourOf(cs, cs[section_id].sort_order, direction)
    IN  IF section_id \in DOMAIN cs /\ n # 0
        THEN [cs EXCEPT ![section_id].sort_order = cs[n].sort_order,
                        ![n].sort_order = cs[section_id].sort_order]
        ELSE cs

SerialMoves(cs, a, b) ==
    SerialMove(SerialMove(cs, requests[a].section_id, requests[a].direction),
               requests[b].section_id, requests[b].direction)

\* Both clients have a move_section that has written, b's write right after a's.
BothMoved(a, b) ==
    /\ a # b /\ {a, b} \subseteq DOMAIN requests
    /\ requests[a].op = "move_section" /\ requests[a].pc = "done"
    /\ requests[b].op = "move_section" /\ requests[b].pc = "done"
    /\ requests[b].before = requests[a].after
    /\ checklist_section = requests[b].after

\* C28: every serial execution of two move_section requests composes the two
\* swaps: when a read and wrote with nothing in between, and b read after a's
\* write and wrote with nothing in between, the table is that of move a
\* followed by move b. (That an interleaving of the reads and writes ends in
\* neither serial order is the state of C28_LostUpdate.)
C28_SerialMovesCompose ==
    \A a, b \in Clients :
        (/\ BothMoved(a, b)
         /\ requests[a].before = requests[a].read
         /\ requests[b].read = requests[a].after)
        => checklist_section = SerialMoves(requests[a].read, a, b)

\* C28 witness, the lost update: both requests read the same table, a wrote,
\* then b wrote what it had read, and the section order that results is
\* neither that of a followed by b nor that of b followed by a.
C28_LostUpdate ==
    \E a, b \in Clients :
        /\ BothMoved(a, b)
        /\ requests[a].read = requests[b].read
        /\ requests[a].before = requests[a].read
        /\ DOMAIN checklist_section = DOMAIN requests[a].read
        /\ SectionOrder(checklist_section)
             # SectionOrder(SerialMoves(requests[a].read, a, b))
        /\ SectionOrder(checklist_section)
             # SectionOrder(SerialMoves(requests[a].read, b, a))

\* C31 (as claimed): move_item up on an item that is not the first of its
\* section in (sort_order, id) order puts it immediately before its former
\* predecessor of the same section, move_item down on one that is not the last
\* puts it immediately after its former successor; no item changes section,
\* and the order of any two other items of one section stays as it was.
C31_MoveItemSwapsWithinSection ==
    [][last'.op = "move_item" /\ last'.item_id \in DOMAIN checklist =>
        LET c == last'.item_id
            peers == ItemsOf(checklist[c].section_id)
            before == checklist
            after == checklist'
            kept == /\ DOMAIN after = DOMAIN before
                    /\ \A x \in DOMAIN before : after[x].section_id = before[x].section_id
                    /\ \A x, y \in DOMAIN before \ {c} :
                          before[x].section_id = before[y].section_id =>
                            (OrderBefore(before, x, y) <=> OrderBefore(after, x, y))
        IN  /\ (last'.direction = "up" /\ ~IsFirstOf(before, peers, c)) =>
                  \E p \in peers \ {c} :
                    /\ OrderBefore(before, p, c) /\ Between(before, peers, p, c) = {}
                    /\ kept
                    /\ OrderBefore(after, c, p) /\ Between(after, peers, c, p) = {}
            /\ (last'.direction = "down" /\ ~IsLastOf(before, peers, c)) =>
                  \E n \in peers \ {c} :
                    /\ OrderBefore(before, c, n) /\ Between(before, peers, c, n) = {}
                    /\ kept
                    /\ OrderBefore(after, n, c) /\ Between(after, peers, n, c) = {}
    ]_vars

\* C32 (as claimed): paste_items adds exactly one item per non-blank line, in
\* line order, to the posted section, with sort_order values that increase
\* along the lines and are all greater than the sort_order of every item the
\* section had before; the items that were there are left as they were.
C32_PasteAppendsAfterMax ==
    [][\A s \in CatSectionIds :
        PasteItems(s, PastedLines) =>
            LET lines == SelectSeq(PastedLines, LAMBDA l : l \notin {"", " "})
                base == sqlite_sequence.checklist
                new == DOMAIN checklist' \ DOMAIN checklist
            IN  /\ new = (base + 1)..(base + Len(lines))
                /\ \A c \in DOMAIN checklist : checklist'[c] = checklist[c]
                /\ \A i \in 1..Len(lines) :
                      /\ checklist'[base + i].text = lines[i]
                      /\ checklist'[base + i].section_id = s
                      /\ \A j \in 1..Len(lines) :
                            i < j => checklist'[base + i].sort_order
                                       < checklist'[base + j].sort_order
                      /\ \A o \in ItemsOf(s) :
                            checklist[o].sort_order < checklist'[base + i].sort_order
    ]_vars

\* The rows of an imported file that the loop does not pass over.
ImportedRows(rows) ==
    SelectSeq(rows, LAMBDA r : r.section_name \notin {"", " "} /\ r.criteria \notin {"", " "})

\* C33 (as claimed): import_csv creates one new section for each section name
\* of the file that the catalog does not have yet, and each new section gets a
\* sort_order greater than that of every section that existed before it, so
\* that it comes last in section order.
C33_ImportAppendsSections ==
    [][\A rows \in ImportFiles :
        ImportCsv(rows) =>
            LET used == ImportedRows(rows)
                names == {used[i].section_name : i \in DOMAIN used}
                known == {checklist_section[i].name : i \in DOMAIN checklist_section}
                new == DOMAIN checklist_section' \ DOMAIN checklist_section
            IN  /\ \A n \in names \ known :
                      Cardinality({i \in new : checklist_section'[i].name = n}) = 1
                /\ \A i \in new : checklist_section'[i].name \in names \ known
                /\ \A i \in new : \A o \in DOMAIN checklist_section' :
                      o < i => checklist_section'[o].sort_order
                                 < checklist_section'[i].sort_order
    ]_vars

\* C34: import_csv inserts no item whose text equals that of another item of
\* the section it goes to, whether that item was there before the import or came
\* from an earlier row of the file; such a row is skipped and counted, every
\* other row with a section name and a criterion ends up as an item of a
\* section of that name, the items that were there are left as they were, and
\* added + skipped is the number of rows with a section name and a criterion.
C34_ImportSkipsDuplicates ==
    [][\A rows \in ImportFiles :
        ImportCsv(rows) =>
            LET used == ImportedRows(rows)
                new == DOMAIN checklist' \ DOMAIN checklist
            IN  /\ \A c \in DOMAIN checklist : checklist'[c] = checklist[c]
                /\ \A c \in new : \A d \in DOMAIN checklist' \ {c} :
                      checklist'[d].section_id = checklist'[c].section_id
                        => checklist'[d].text # checklist'[c].text
                /\ \A i \in DOMAIN used : \E c \in DOMAIN checklist' :
                      /\ checklist'[c].text = used[i].criteria
                      /\ checklist'[c].section_id \in DOMAIN checklist_section'
                      /\ checklist_section'[checklist'[c].section_id].name
                           = used[i].section_name
                /\ last'.added = Cardinality(new)
                /\ last'.added + last'.skipped = Len(used)
    ]_vars

\* An import has added one row of its file and skipped another as a duplicate.
C34_Witness ==
    /\ last.op = "import_csv"
    /\ last.added >= 1
    /\ last.skipped >= 1

\* The sections the second step of the new-review form shows as selected.
Preselected(from_id) ==
    {s \in DOMAIN SectionsForStep2(from_id) : SectionsForStep2(from_id)[s]}

\* C35 (as claimed): the sections preselected for a new review are the sections
\* flagged is_default, or all sections when none is flagged; for a re-review
\* of a review that has selection rows they are the sections of those rows.
C35_PreselectionIsDefaultOrSource ==
    \A f \in {0} \cup DOMAIN review :
        LET flagged == {s \in DOMAIN checklist_section : checklist_section[s].is_default = 1}
            source == {p[2] : p \in {q \in review_section : q[1] = f}}
        IN  IF f # 0 /\ source # {}
            THEN Preselected(f) = source
            ELSE Preselected(f) = IF flagged # {} THEN flagged ELSE DOMAIN checklist_section

\* C36 (as claimed): a POST to review_run of a review that has selection rows
\* creates no result row: every checklist id with a result row of the review
\* after it had one before, hence since the review's creation, so that no row
\* appears for an item outside the review's visible set.
C36_RecordResultCreatesNoRow ==
    [][\A r \in DOMAIN review :
        (last'.op = "run" /\ last'.review_id = r /\ GetReviewSectionIds(r) # {}) =>
            ResultIds(review_result', r) \subseteq ResultIds(review_result, r)
    ]_vars

\* C37 (as claimed): for every review that has selection rows, every existing
\* item with a result row of the review is among the items the run, detail and
\* export views keep for it, whatever catalog operations came in between.
C37_RecordedResultsStayVisible ==
    \A r \in DOMAIN review :
        GetReviewSectionIds(r) # {} =>
            \A c \in ResultIds(review_result, r) \cap DOMAIN checklist :
                /\ c \in VisibleItems(r)
                /\ c \in ViewItemIds(ReviewRunView(r))
                /\ c \in ViewItemIds(ReviewDetailView(r))

\* The sections whose items a group of a run / detail view holds.
GroupSections(group) ==
    {checklist[group.items[i].id].section_id : i \in 1..Len(group.items)}

\* C38 (as claimed): every group of the run view and of the detail view of a
\* review holds items of exactly one section, also when two sections next to
\* each other in section order have the same name. Stated for the catalogs in
\* which every item's section exists, so that no "General" group is involved.
C38_GroupIsOneSection ==
    (\A c \in DOMAIN checklist : checklist[c].section_id \in DOMAIN checklist_section) =>
        \A r \in DOMAIN review :
            /\ \A g \in 1..Len(ReviewRunView(r)) :
                  Cardinality(GroupSections(ReviewRunView(r)[g])) = 1
            /\ \A g \in 1..Len(ReviewDetailView(r)) :
                  Cardinality(GroupSections(ReviewDetailView(r)[g])) = 1

\* How often each sort_order value occurs among the rows ids of table t.
SortOrderCounts(t, ids) ==
    [v \in {t[i].sort_order : i \in ids} |-> Cardinality({i \in ids : t[i].sort_order = v})]

\* C39: a move_section leaves the set of sections and the multiset of their
\* sort_order values as they were and changes at most two section rows, in
\* nothing but sort_order; a move_item does the same for the items, the
\* multiset being that of the items of each section; neither touches the
\* other table.
C39_MovesPermuteSortOrder ==
    [][/\ last'.op = "move_section" =>
            /\ checklist' = checklist
            /\ DOMAIN checklist_section' = DOMAIN checklist_section
            /\ SortOrderCounts(checklist_section', DOMAIN checklist_section)
                 = SortOrderCounts(checklist_section, DOMAIN checklist_section)
            /\ Cardinality({s \in DOMAIN checklist_section :
                              checklist_section'[s] # checklist_section[s]}) <= 2
            /\ \A s \in DOMAIN checklist_section :
                  [checklist_section'[s] EXCEPT !.sort_order = 0]
                    = [checklist_section[s] EXCEPT !.sort_order = 0]
       /\ last'.op = "move_item" =>
            /\ checklist_section' = checklist_section
            /\ DOMAIN checklist' = DOMAIN checklist
            /\ \A c \in DOMAIN checklist :
                  [checklist'[c] EXCEPT !.sort_order = 0] = [checklist[c] EXCEPT !.sort_order = 0]
            /\ \A c \in DOMAIN checklist :
                  SortOrderCounts(checklist', ItemsOf(checklist[c].section_id))
                    = SortOrderCounts(checklist, ItemsOf(checklist[c].section_id))
            /\ Cardinality({c \in DOMAIN checklist : checklist'[c] # checklist[c]}) <= 2
    ]_vars

\* A move_section has just exchanged the sort_order values of two sections, or
\* a move_item those of two items of one section.
C39_Witness ==
    \/ /\ last.op = "move_section"
       /\ last.neighbour # 0
       /\ checklist_section[last.section_id].sort_order
            # checklist_section[last.neighbour].sort_order
    \/ /\ last.op = "move_item"
       /\ last.neighbour # 0
       /\ checklist[last.item_id].sort_order # checklist[last.neighbour].sort_order

====
